---- MODULE Spec2Model ----
(***************************************************************************)
(* A model of the mzML scan readers of LCMSpector                          *)
(* (lcmspector/utils/fast_mzml_parser.pyx): decode_binary_data,            *)
(* parse_ms1_fast and parse_ms1_with_xic_optimization, with the linear     *)
(* XIC construction of construct_xics as the reference.                    *)
(*                                                                         *)
(* Numbers are integers: a mass, an intensity and a scan time are finite   *)
(* values of an ordered field on which the code only compares, adds and    *)
(* subtracts.  A Python None is a record with some = FALSE; an exception   *)
(* is a result with ok = FALSE.                                            *)
(***************************************************************************)
EXTENDS Integers, Sequences, FiniteSets, TLC

\* ---------------------------------------------------------------- bounds
\* the longest file (number of spectrum end events) that is streamed
MaxSpectra == 3
\* the longest list of target masses
MaxTargets == 2
\* the longest decoded array of the single-spectrum files
MaxLen == 3
\* masses of the single-spectrum files are 1..MaxMz
MaxMz == 3
\* target masses are 1..MaxTarget
MaxTarget == 6
\* mass accuracies are 0..MaxAcc
MaxAcc == 1
\* the weight of the upper 4-byte cell of an 8-byte value
CellBase == 16

\* the largest finite magnitude of a float of the calculation layer
MaxFloat == 2500
\* the most ions of a compound
MaxIons == 2
\* the most peaks of a caller's batch
MaxPeaks == 3
\* the longest intensity series a peak is integrated over
MaxPoints == 4
\* the intensities of such a series are -1..MaxIntensity
MaxIntensity == 2
MaxCells == 2
MaxCompounds == 2
MaxScans == 2
MaxLines == 3
InitialCapacity == 1
LineSize == 8
MaxFiles == 3

\* ------------------------------------------------------ program constants
\* mass_tolerance = 3 * mass_accuracy
ToleranceFactor == 3
\* round(conc, 6)
RoundDigits == 6

\* ---------------------------------------------------------------- helpers
Min(a, b) == IF a <= b THEN a ELSE b

RECURSIVE SumSeq(_)
SumSeq(s) == IF s = <<>> THEN 0 ELSE Head(s) + SumSeq(Tail(s))

Prefix(s, n) == SubSeq(s, 1, n)

IsNonDecreasing(s) == \A i \in 1..(Len(s) - 1) : s[i] <= s[i + 1]

\* np.diff(a) >= 0 everywhere
AllDiffsNonNegative(a) == \A i \in 1..(Len(a) - 1) : a[i + 1] - a[i] >= 0

IndexOrders(n) ==
    {p \in [1..n -> 1..n] : \A i, j \in 1..n : p[i] = p[j] => i = j}

\* a[idx] for an index array idx
Take(a, idx) == [k \in 1..Len(idx) |-> a[idx[k]]]

None == [some |-> FALSE, arr |-> <<>>]
Some(a) == [some |-> TRUE, arr |-> a]

Raised == [ok |-> FALSE, arr |-> <<>>]
Returned(a) == [ok |-> TRUE, arr |-> a]

\* --------------------------------------------------------- the wire format
\* A byte string is a sequence of 4-byte cells and 0..3 bytes after them.
\* The text of a <binary> element says what the library calls make of it:
\* whether it is base64 (valid: alphabet characters in groups of four, padded
\* at the end only), whether base64.b64decode accepts it (b64: with the
\* default validate=False it drops the characters outside the alphabet and
\* rejects incorrect padding only), the bytes it decodes to (raw), and what
\* zlib.decompress and gzip.decompress return for those bytes.
Bytes(cells, rem) == [ok |-> TRUE, cells |-> cells, rem |-> rem]
NotBytes == [ok |-> FALSE, cells |-> <<>>, rem |-> 0]

ByteCount(b) == 4 * Len(b.cells) + b.rem

\* the bytes of the 64-bit values vals: a low cell and a high cell each
Cells64(vals) ==
    [k \in 1..(2 * Len(vals)) |-> IF k % 2 = 1 THEN vals[(k + 1) \div 2] ELSE 0]

\* np.frombuffer(data, dtype): the byte count must be a multiple of the width
frombuffer(data, width) ==
    IF ByteCount(data) % width # 0 THEN Raised
    ELSE IF width = 4 THEN Returned(data.cells)
    ELSE Returned([k \in 1..(Len(data.cells) \div 2) |->
                     data.cells[2 * k - 1] + CellBase * data.cells[2 * k]])

decode_binary_data(binary_data, precision, compression) ==
    LET raw == IF binary_data.b64 THEN binary_data.raw ELSE NotBytes
        decoded_data ==
            IF ~raw.ok THEN NotBytes
            ELSE IF compression = "zlib" THEN binary_data.zlib
            ELSE IF compression = "gzip" THEN binary_data.gzip
            ELSE raw
    IN  IF ~decoded_data.ok THEN Raised
        ELSE IF precision = "32" THEN frombuffer(decoded_data, 4)
        ELSE frombuffer(decoded_data, 8)

\* int(text) and float(text): the decimal numerals the files of the model use
ParseInt(text) ==
    IF \E n \in 0..9 : ToString(n) = text
    THEN [ok |-> TRUE, val |-> CHOOSE n \in 0..9 : ToString(n) = text]
    ELSE [ok |-> FALSE, val |-> 0]

ParseFloat(text) == ParseInt(text)

\* the first cvParam of params with this accession (0: there is none)
FirstParam(params, accession) ==
    IF \E i \in 1..Len(params) : params[i].accession = accession
    THEN CHOOSE i \in 1..Len(params) :
            /\ params[i].accession = accession
            /\ \A j \in 1..(i - 1) : params[j].accession # accession
    ELSE 0

\* param.get('value', default)
GetValue(param, default) == IF param.value = "absent" THEN default ELSE param.value

\* mutant: the declared MS level is not read, every spectrum is level 1
ExtractMsLevel_ignored(elem) == [ok |-> TRUE, val |-> 1]

\* ms_level = 1; the first MS:1000511 cvParam sets int(value)
ExtractMsLevel(elem) ==
    LET i == FirstParam(elem.params, "MS:1000511")
    IN  IF i = 0 THEN [ok |-> TRUE, val |-> 1]
        ELSE ParseInt(GetValue(elem.params[i], "1"))

\* scan_time = 0.0; the first MS:1000016 cvParam sets float(value)
ExtractScanTime(elem) ==
    LET i == FirstParam(elem.params, "MS:1000016")
    IN  IF i = 0 THEN [ok |-> TRUE, val |-> 0]
        ELSE ParseFloat(GetValue(elem.params[i], "0"))

\* the cvParam loop of one binaryDataArray: the last param of a kind wins
RECURSIVE ArrayParams(_, _)
ArrayParams(params, meta) ==
    IF params = <<>> THEN meta
    ELSE LET accession == Head(params)
             next == IF accession = "MS:1000514" THEN [meta EXCEPT !.array_type = "mz"]
                     ELSE IF accession = "MS:1000515" THEN [meta EXCEPT !.array_type = "intensity"]
                     ELSE IF accession = "MS:1000521" THEN [meta EXCEPT !.precision = "32"]
                     ELSE IF accession = "MS:1000523" THEN [meta EXCEPT !.precision = "64"]
                     ELSE IF accession = "MS:1000574" THEN [meta EXCEPT !.compression = "zlib"]
                     ELSE meta
         IN  ArrayParams(Tail(params), next)

ArrayMeta(binary_data_array) ==
    ArrayParams(binary_data_array.params,
                [array_type |-> "none", precision |-> "64", compression |-> "none"])

\* binary_elem is not None and binary_elem.text
HasText(binary_data_array) == binary_data_array.binary = "text"

\* the decode call on one binaryDataArray that has text
DecodeArray(binary_data_array) ==
    LET meta == ArrayMeta(binary_data_array)
    IN  decode_binary_data(binary_data_array.text, meta.precision, meta.compression)

\* ------------------------------------------------- one spectrum end event
NoArrays == [mz_array |-> None, intensity_array |-> None, ok |-> TRUE]

\* mutant: an array with no role tag is taken for the intensities
RECURSIVE ReadArraysFast_untagged_as_intensity(_, _)
ReadArraysFast_untagged_as_intensity(arrays, acc) ==
    IF arrays = <<>> THEN acc
    ELSE LET binary_data_array == Head(arrays)
             meta == ArrayMeta(binary_data_array)
             decoded_array == DecodeArray(binary_data_array)
             after ==
                 IF HasText(binary_data_array) /\ decoded_array.ok
                 THEN IF meta.array_type = "mz"
                      THEN [acc EXCEPT !.mz_array = Some(decoded_array.arr)]
                      ELSE [acc EXCEPT !.intensity_array = Some(decoded_array.arr)]
                 ELSE acc
         IN  ReadArraysFast_untagged_as_intensity(Tail(arrays), after)

\* the binaryDataArray loop of parse_ms1_fast: a decode failure is caught
\* and logged, and the array it was to fill keeps its value
RECURSIVE ReadArraysFast(_, _)
ReadArraysFast(arrays, acc) ==
    IF arrays = <<>> THEN acc
    ELSE LET binary_data_array == Head(arrays)
             meta == ArrayMeta(binary_data_array)
             decoded_array == DecodeArray(binary_data_array)
             after ==
                 IF HasText(binary_data_array) /\ decoded_array.ok
                 THEN IF meta.array_type = "mz"
                      THEN [acc EXCEPT !.mz_array = Some(decoded_array.arr)]
                      ELSE IF meta.array_type = "intensity"
                      THEN [acc EXCEPT !.intensity_array = Some(decoded_array.arr)]
                      ELSE acc
                 ELSE acc
         IN  ReadArraysFast(Tail(arrays), after)

\* the binaryDataArray loop of parse_ms1_with_xic_optimization: the decode
\* call is not in a try block, a failure leaves the loop (ok = FALSE)
RECURSIVE ReadArraysXic(_, _)
ReadArraysXic(arrays, acc) ==
    IF arrays = <<>> \/ ~acc.ok THEN acc
    ELSE LET binary_data_array == Head(arrays)
             meta == ArrayMeta(binary_data_array)
             decoded_array == DecodeArray(binary_data_array)
             after ==
                 IF HasText(binary_data_array)
                 THEN IF ~decoded_array.ok THEN [acc EXCEPT !.ok = FALSE]
                      ELSE IF meta.array_type = "mz"
                      THEN [acc EXCEPT !.mz_array = Some(decoded_array.arr)]
                      ELSE IF meta.array_type = "intensity"
                      THEN [acc EXCEPT !.intensity_array = Some(decoded_array.arr)]
                      ELSE acc
                 ELSE acc
         IN  ReadArraysXic(Tail(arrays), after)

\* mutant: the longer array keeps its last min_len elements, not its first
TruncateToShorter_tail(mz_array, intensity_array) ==
    LET min_len == Min(Len(mz_array), Len(intensity_array))
    IN  [mz_array |-> SubSeq(mz_array, Len(mz_array) - min_len + 1, Len(mz_array)),
         intensity_array |-> SubSeq(intensity_array, Len(intensity_array) - min_len + 1,
                                    Len(intensity_array))]

\* "Make arrays the same size if they differ": both cut to the shorter length
TruncateToShorter(mz_array, intensity_array) ==
    IF Len(mz_array) # Len(intensity_array)
    THEN LET min_len == Min(Len(mz_array), Len(intensity_array))
         IN  [mz_array |-> Prefix(mz_array, min_len),
              intensity_array |-> Prefix(intensity_array, min_len)]
    ELSE [mz_array |-> mz_array, intensity_array |-> intensity_array]

\* np.argsort(a), default kind: an index order that sorts a; numpy does not
\* promise which one when values are equal, so it is any of them
argsort(a) == {p \in IndexOrders(Len(a)) : IsNonDecreasing(Take(a, p))}

\* mutant: the arrays are never reordered
SortByMz_skipped(mz_array, intensity_array) ==
    {[mz_array |-> mz_array, intensity_array |-> intensity_array]}

\* "Sort by m/z if needed": the arrays after the reordering, one per index
\* order argsort may return
SortByMz(mz_array, intensity_array) ==
    IF ~AllDiffsNonNegative(mz_array)
    THEN {[mz_array |-> Take(mz_array, sort_idx),
           intensity_array |-> Take(intensity_array, sort_idx)] :
             sort_idx \in argsort(mz_array)}
    ELSE {[mz_array |-> mz_array, intensity_array |-> intensity_array]}

FastMS1Scan(scan_time, mz_array, intensity_array, ms_level, total_ion_current) ==
    [scan_time |-> scan_time, mz_array |-> mz_array,
     intensity_array |-> intensity_array, ms_level |-> ms_level,
     total_ion_current |-> total_ion_current]

NoScan == FastMS1Scan(0, <<>>, <<>>, 0, 0)
Skip == [kind |-> "skip", cause |-> "none", scan |-> NoScan, current_xic |-> <<>>]
Raise(cause) == [kind |-> "raise", cause |-> cause, scan |-> NoScan, current_xic |-> <<>>]
Emit(scan, current_xic) ==
    [kind |-> "scan", cause |-> "none", scan |-> scan, current_xic |-> current_xic]

\* mutant: the decode call of parse_ms1_fast is in no try block, as in
\* parse_ms1_with_xic_optimization, and a failure leaves the event loop
SpectrumFast_uncaught(elem) ==
    LET level == ExtractMsLevel(elem)
        time == ExtractScanTime(elem)
        got == ReadArraysXic(elem.arrays, NoArrays)
        cut == TruncateToShorter(got.mz_array.arr, got.intensity_array.arr)
    IN  IF ~level.ok THEN {Raise("level")}
        ELSE IF level.val # 1 THEN {Skip}
        ELSE IF ~time.ok THEN {Raise("time")}
        ELSE IF ~got.ok THEN {Raise("decode")}
        ELSE IF got.mz_array.some /\ got.intensity_array.some
        THEN {Emit(FastMS1Scan(time.val, s.mz_array, s.intensity_array, level.val,
                               SumSeq(s.intensity_array)), <<>>) :
                s \in SortByMz(cut.mz_array, cut.intensity_array)}
        ELSE {Skip}

\* mutant: the total ion current is summed before the arrays are cut to the
\* same length
SpectrumFast_tic_before_truncation(elem) ==
    LET level == ExtractMsLevel(elem)
        time == ExtractScanTime(elem)
        got == ReadArraysFast(elem.arrays, NoArrays)
        cut == TruncateToShorter(got.mz_array.arr, got.intensity_array.arr)
    IN  IF ~level.ok THEN {Raise("level")}
        ELSE IF level.val # 1 THEN {Skip}
        ELSE IF ~time.ok THEN {Raise("time")}
        ELSE IF got.mz_array.some /\ got.intensity_array.some
        THEN {Emit(FastMS1Scan(time.val, s.mz_array, s.intensity_array, level.val,
                               SumSeq(got.intensity_array.arr)), <<>>) :
                s \in SortByMz(cut.mz_array, cut.intensity_array)}
        ELSE {Skip}

\* the body of parse_ms1_fast's loop for one spectrum end event: the set of
\* its possible outcomes (a scan to append, nothing, or an exception that
\* leaves the loop)
SpectrumFast(elem) ==
    LET level == ExtractMsLevel(elem)
        time == ExtractScanTime(elem)
        got == ReadArraysFast(elem.arrays, NoArrays)
        cut == TruncateToShorter(got.mz_array.arr, got.intensity_array.arr)
    IN  IF ~level.ok THEN {Raise("level")}
        ELSE IF level.val # 1 THEN {Skip}
        ELSE IF ~time.ok THEN {Raise("time")}
        ELSE IF got.mz_array.some /\ got.intensity_array.some
        THEN {Emit(FastMS1Scan(time.val, s.mz_array, s.intensity_array, level.val,
                               SumSeq(s.intensity_array)), <<>>) :
                s \in SortByMz(cut.mz_array, cut.intensity_array)}
        ELSE {Skip}

\* np.searchsorted(a, v, side): numpy's binary search over positions lo..hi
\* (0-based), whatever the order of a
RECURSIVE SearchLeft(_, _, _, _)
SearchLeft(a, v, lo, hi) ==
    IF lo >= hi THEN lo
    ELSE LET mid == lo + (hi - lo) \div 2
         IN  IF a[mid + 1] < v THEN SearchLeft(a, v, mid + 1, hi)
             ELSE SearchLeft(a, v, lo, mid)

RECURSIVE SearchRight(_, _, _, _)
SearchRight(a, v, lo, hi) ==
    IF lo >= hi THEN lo
    ELSE LET mid == lo + (hi - lo) \div 2
         IN  IF a[mid + 1] <= v THEN SearchRight(a, v, mid + 1, hi)
             ELSE SearchRight(a, v, lo, mid)

\* mutant: side is not passed on, both bounds are searched from the left
searchsorted_left_only(a, v, side) == SearchLeft(a, v, 0, Len(a))

searchsorted(a, v, side) ==
    IF side = "left" THEN SearchLeft(a, v, 0, Len(a)) ELSE SearchRight(a, v, 0, Len(a))

\* np.sum(a[start:end]): a Python slice, cut at the end of the array
SumSlice(a, start, end) == SumSeq(SubSeq(a, start + 1, Min(end, Len(a))))

\* one XIC sample of parse_ms1_with_xic_optimization
XicSample(mz_array, intensity_array, target_mass, mass_tolerance) ==
    LET low_mass == target_mass - mass_tolerance
        high_mass == target_mass + mass_tolerance
        start_idx == searchsorted(mz_array, low_mass, "left")
        end_idx == searchsorted(mz_array, high_mass, "right")
    IN  IF start_idx < end_idx THEN SumSlice(intensity_array, start_idx, end_idx)
        ELSE 0

\* mutant: the sum of one target mass is carried over into the next
RECURSIVE RunningXic(_, _, _, _, _)
RunningXic(mz_array, intensity_array, targets, mass_tolerance, n) ==
    IF n = 0 THEN 0
    ELSE RunningXic(mz_array, intensity_array, targets, mass_tolerance, n - 1)
         + XicSample(mz_array, intensity_array, targets[n], mass_tolerance)
CurrentXic_carried(mz_array, intensity_array, targets, mass_tolerance) ==
    [i \in 1..Len(targets) |->
        RunningXic(mz_array, intensity_array, targets, mass_tolerance, i)]

\* current_xic: one sample per target mass
CurrentXic(mz_array, intensity_array, targets, mass_tolerance) ==
    [i \in 1..Len(targets) |->
        XicSample(mz_array, intensity_array, targets[i], mass_tolerance)]

\* the body of parse_ms1_with_xic_optimization's loop for one spectrum end
\* event
SpectrumXic(elem, targets, mass_tolerance) ==
    LET level == ExtractMsLevel(elem)
        time == ExtractScanTime(elem)
        got == ReadArraysXic(elem.arrays, NoArrays)
        mz_array == got.mz_array.arr
        intensity_array == got.intensity_array.arr
    IN  IF ~level.ok THEN {Raise("level")}
        ELSE IF level.val # 1 THEN {Skip}
        ELSE IF ~time.ok THEN {Raise("time")}
        ELSE IF ~got.ok THEN {Raise("decode")}
        ELSE IF got.mz_array.some /\ got.intensity_array.some
        THEN {Emit(FastMS1Scan(time.val, mz_array, intensity_array, level.val,
                               SumSeq(intensity_array)),
                   CurrentXic(mz_array, intensity_array, targets, mass_tolerance))}
        ELSE {Skip}

\* mutant: the scan is put at the front of the list
ListAppend_front(list, scan) == <<scan>> \o list

\* ms1_scans.append(scan)
ListAppend(list, scan) == Append(list, scan)

\* xic_intensities: a 2-D array, kept as its shape and its columns
\* np.zeros((n, 0))
EmptyXic(n) == [shape |-> <<n, 0>>, cols |-> <<>>]

\* mutant: column_stack([current_xic, xic_intensities]), the new column first
AppendColumn_front(xic, current_xic) ==
    IF xic.shape[2] = 0
    THEN [shape |-> <<Len(current_xic), 1>>, cols |-> <<current_xic>>]
    ELSE [shape |-> <<xic.shape[1], xic.shape[2] + 1>>,
          cols |-> <<current_xic>> \o xic.cols]

\* "Append to XIC data": reshape(-1, 1) for the first column, column_stack
\* after it
AppendColumn(xic, current_xic) ==
    IF xic.shape[2] = 0
    THEN [shape |-> <<Len(current_xic), 1>>, cols |-> <<current_xic>>]
    ELSE [shape |-> <<xic.shape[1], xic.shape[2] + 1>>,
          cols |-> Append(xic.cols, current_xic)]

\* the linear scan of construct_xics: the sum of the intensities at the
\* points whose mass is in [ion - 3*mass_accuracy, ion + 3*mass_accuracy]
ConstructXicSample(scan, ion, accuracy) ==
    LET mass_range == <<ion - ToleranceFactor * accuracy, ion + ToleranceFactor * accuracy>>
        indices == {k \in 1..Len(scan.mz_array) :
                       scan.mz_array[k] >= mass_range[1] /\ scan.mz_array[k] <= mass_range[2]}
        intensities == [k \in indices |-> scan.intensity_array[k]]
        RECURSIVE SumOver(_)
        SumOver(S) == IF S = {} THEN 0
                      ELSE LET k == CHOOSE x \in S : TRUE
                           IN  intensities[k] + SumOver(S \ {k})
    IN  SumOver(indices)

\* the scan loop of construct_xics for one ion: xic = [], and one
\* xic.append(np.sum(intensities)) per scan of data
RECURSIVE ConstructXicLoop(_, _, _, _)
ConstructXicLoop(data, ion, accuracy, xic) ==
    IF data = <<>> THEN xic
    ELSE ConstructXicLoop(Tail(data), ion, accuracy,
                          Append(xic, ConstructXicSample(Head(data), ion, accuracy)))

construct_xics(data, ion, accuracy) == ConstructXicLoop(data, ion, accuracy, <<>>)

\* ------------------------------------------------------------- the inputs
Param(accession, value) == [accession |-> accession, value |-> value]

\* the text of a <binary> element holding vals as 64-bit (32-bit) floats
Text64(vals) ==
    [valid |-> TRUE, b64 |-> TRUE, raw |-> Bytes(Cells64(vals), 0),
     zlib |-> NotBytes, gzip |-> NotBytes]
Text32(vals) ==
    [valid |-> TRUE, b64 |-> TRUE, raw |-> Bytes(vals, 0),
     zlib |-> NotBytes, gzip |-> NotBytes]
\* the same, zlib-compressed: the stored bytes are no whole number of values
TextZlib32(vals) ==
    [valid |-> TRUE, b64 |-> TRUE, raw |-> Bytes(<<9>>, 1),
     zlib |-> Bytes(vals, 0), gzip |-> NotBytes]
\* text base64.b64decode rejects (incorrect padding)
TextBadBase64 ==
    [valid |-> FALSE, b64 |-> FALSE, raw |-> NotBytes,
     zlib |-> NotBytes, gzip |-> NotBytes]
\* the text of vals as 64-bit floats with one character outside the base64
\* alphabet in it, which base64.b64decode discards
TextStray64(vals) ==
    [valid |-> FALSE, b64 |-> TRUE, raw |-> Bytes(Cells64(vals), 0),
     zlib |-> NotBytes, gzip |-> NotBytes]
\* text that decodes to 4 bytes more than a whole number of 64-bit values
TextOddLength(vals) ==
    [valid |-> TRUE, b64 |-> TRUE, raw |-> Bytes(Append(Cells64(vals), 1), 0),
     zlib |-> NotBytes, gzip |-> NotBytes]

BinaryDataArray(params, binary, text) ==
    [params |-> params, binary |-> binary, text |-> text]

MzArray(text) == BinaryDataArray(<<"MS:1000523", "MS:1000514">>, "text", text)
IntensityArray(text) == BinaryDataArray(<<"MS:1000523", "MS:1000515">>, "text", text)

Spectrum(params, arrays) == [params |-> params, arrays |-> arrays]

MsLevel(v) == Param("MS:1000511", v)
ScanStart(v) == Param("MS:1000016", v)

\* the spectra a streamed file may hold at position p (its scan start time,
\* where it declares one, is p)
FileSpectra(p) ==
    LET rt == ScanStart(ToString(p))
        good == <<MzArray(Text64(<<1, 2>>)), IntensityArray(Text64(<<1, 2>>))>>
    IN  { Spectrum(<<MsLevel("1"), rt>>, good),
          \* intensity first, masses descending
          Spectrum(<<MsLevel("1"), rt>>,
                   <<IntensityArray(Text64(<<1, 2>>)), MzArray(Text64(<<2, 1>>))>>),
          \* one mass more than intensities, not ascending
          Spectrum(<<MsLevel("1"), rt>>,
                   <<MzArray(Text64(<<3, 1, 2>>)), IntensityArray(Text64(<<1, 2>>))>>),
          \* 32-bit zlib masses, one intensity more than masses
          Spectrum(<<MsLevel("1"), rt>>,
                   <<BinaryDataArray(<<"MS:1000521", "MS:1000574", "MS:1000514">>,
                                     "text", TextZlib32(<<1, 3>>)),
                     IntensityArray(Text64(<<1, 2, 4>>))>>),
          \* the mass array fails to decode
          Spectrum(<<MsLevel("1"), rt>>,
                   <<MzArray(TextBadBase64), IntensityArray(Text64(<<1, 2>>))>>),
          \* the intensity array fails to decode
          Spectrum(<<MsLevel("1"), rt>>,
                   <<MzArray(Text64(<<1, 2>>)), IntensityArray(TextOddLength(<<1>>))>>),
          \* the intensity array has no text
          Spectrum(<<MsLevel("1"), rt>>,
                   <<MzArray(Text64(<<1, 2>>)),
                     BinaryDataArray(<<"MS:1000523", "MS:1000515">>, "empty", Text64(<<>>))>>),
          \* an array with no role tag in place of the intensities
          Spectrum(<<MsLevel("1"), rt>>,
                   <<MzArray(Text64(<<1, 2>>)),
                     BinaryDataArray(<<"MS:1000523">>, "text", Text64(<<1, 2>>))>>),
          \* no MS level declared
          Spectrum(<<rt>>, <<MzArray(Text64(<<2, 3>>)), IntensityArray(Text64(<<1, 2>>))>>),
          \* no scan start time declared
          Spectrum(<<MsLevel("1")>>, good),
          \* MS2
          Spectrum(<<MsLevel("2"), rt>>, good),
          \* an MS level that is no integer
          Spectrum(<<MsLevel("x"), rt>>, good),
          \* a scan start time that is no number
          Spectrum(<<MsLevel("1"), ScanStart("x")>>, good) }

RECURSIVE SeqsUpTo(_, _)
SeqsUpTo(S, n) ==
    IF n = 0 THEN {<<>>}
    ELSE LET shorter == SeqsUpTo(S, n - 1)
         IN  shorter \cup {Append(s, x) : s \in {q \in shorter : Len(q) = n - 1}, x \in S}

\* intensities 1, 2, 4, ...: a sum of some of them tells which were summed
RECURSIVE PowersOfTwo(_)
PowersOfTwo(n) ==
    IF n = 0 THEN <<>>
    ELSE LET s == PowersOfTwo(n - 1)
         IN  Append(s, IF n = 1 THEN 1 ELSE 2 * s[n - 1])

\* the one spectrum of a single-spectrum file: MS1, with any masses of up to
\* MaxLen values in 1..MaxMz and up to MaxLen intensities
ScanSpectra ==
    { Spectrum(<<MsLevel("1"), ScanStart("1")>>,
               <<MzArray(Text64(m)), IntensityArray(Text64(PowersOfTwo(n)))>>) :
        m \in SeqsUpTo(1..MaxMz, MaxLen), n \in 0..MaxLen }

\* the target masses of the streamed files, and the mass accuracies
FileTargets == {2, 5}
Accuracies == 0..MaxAcc

\* ------------------------------------------------------------- the state
VARIABLES
    fn,               \* the function called: "fast" (parse_ms1_fast) or "xic"
    target_masses,    \* its arguments (parse_ms1_with_xic_optimization)
    mass_accuracy,
    pc,               \* "start", "iter" (in the event loop), "returned", "raised"
    file,             \* the spectra whose end event was delivered, in file order
    ms1_scans,        \* the list of scans built so far
    origin,           \* for each scan of ms1_scans, the file position it came from
    xic_intensities,
    scan_times,
    scan_count,
    ms1_count,
    result,           \* what the call returned, once pc = "returned"
    cause,            \* why the event loop was left by an exception ("none": it was not)
    cancelled,        \* the caller's cancellation signal
    held,             \* the file positions of the spectra whose element was
                      \* delivered and still has its content
    op,               \* the function of the calculation layer under evaluation
    args,             \* its arguments
    calc              \* its locals and, once it returned, its result

\* the variables of the calculation layer
calcVars == <<op, args, calc>>

vars == <<fn, target_masses, mass_accuracy, pc, file, ms1_scans, origin,
          xic_intensities, scan_times, scan_count, ms1_count, result, cause,
          cancelled, held, op, args, calc>>

\* no function of the calculation layer is under evaluation
NoCalc == op = "none" /\ args = <<>> /\ calc = <<>>

NoResult ==
    [ms1_scans |-> <<>>,
     xic_data |-> [xic_intensities |-> EmptyXic(0), scan_times |-> <<>>,
                   target_masses |-> <<>>]]

Locals(targets) ==
    /\ pc = "start"
    /\ file = <<>>
    /\ ms1_scans = <<>>
    /\ origin = <<>>
    /\ xic_intensities = EmptyXic(Len(targets))
    /\ scan_times = <<>>
    /\ scan_count = 0
    /\ ms1_count = 0
    /\ result = NoResult
    /\ cause = "none"
    /\ held = {}

Call(targetLists) ==
    \/ /\ fn = "fast"
       /\ target_masses = <<>>
       /\ mass_accuracy = 0
       /\ Locals(<<>>)
    \/ /\ fn = "xic"
       /\ target_masses \in targetLists
       /\ mass_accuracy \in Accuracies
       /\ Locals(target_masses)

\* lists of up to n target masses of S, none twice (the ions of a compound
\* are unique)
TargetLists(S, n) ==
    {s \in SeqsUpTo(S, n) : \A i, j \in 1..Len(s) : s[i] = s[j] => i = j}

\* a call on a streamed file
Init == Call(TargetLists(FileTargets, MaxTargets)) /\ cancelled = FALSE /\ NoCalc

\* a call on a single-spectrum file, one target mass
InitScan == Call({<<t>> : t \in 1..MaxTarget}) /\ cancelled = FALSE /\ NoCalc

mass_tolerance == ToleranceFactor * mass_accuracy

\* mutant: the except clause of parse_ms1_fast returns the scans read so far
Fail_partial(why) ==
    /\ cause' = why
    /\ IF fn = "fast"
       THEN pc' = "returned" /\ result' = [NoResult EXCEPT !.ms1_scans = ms1_scans]
       ELSE pc' = "raised" /\ result' = NoResult

\* the except clause: parse_ms1_fast returns [], the other re-raises
Fail(why) ==
    /\ cause' = why
    /\ IF fn = "fast"
       THEN pc' = "returned" /\ result' = NoResult
       ELSE pc' = "raised" /\ result' = NoResult

\* os.path.getsize, ET.iterparse and the first next(context)
Open ==
    /\ pc = "start"
    /\ \E exists \in BOOLEAN, wellFormed \in BOOLEAN :
          IF ~exists
          THEN \* parse_ms1_fast: getsize raises before the try block;
               \* the other: iterparse raises in it and the except re-raises
               /\ pc' = "raised"
               /\ cause' = "missing"
               /\ result' = NoResult
          ELSE IF ~wellFormed THEN Fail("parse")
          ELSE pc' = "iter" /\ UNCHANGED <<result, cause>>
    /\ UNCHANGED <<fn, target_masses, mass_accuracy, file, ms1_scans, origin,
                   xic_intensities, scan_times, scan_count, ms1_count>>
    /\ UNCHANGED <<cancelled, held, calcVars>>

\* mutant: elem.clear() and root.clear() are under the test for both arrays
\* and run only when a scan is built
Cleared_with_scan_only(out) == out.kind = "scan"

\* elem.clear() and root.clear() end the handling of a spectrum end event,
\* whatever its MS level and whether a scan was built, unless an exception
\* left the loop body before them
Cleared(out) == out.kind # "raise"

\* the loop body for the end event of spectrum elem
SpectrumEnd(elem) ==
    /\ pc = "iter"
    /\ \E out \in IF fn = "fast" THEN SpectrumFast(elem)
                  ELSE SpectrumXic(elem, target_masses, mass_tolerance) :
          /\ file' = Append(file, elem)
          /\ held' = IF Cleared(out) THEN {} ELSE held \cup {Len(file) + 1}
          \* the one function counts the spectrum before it reads its MS level,
          \* the other after
          /\ scan_count' = IF fn = "xic" /\ out.cause = "level" THEN scan_count
                           ELSE scan_count + 1
          /\ IF out.kind = "raise"
             THEN /\ Fail(out.cause)
                  /\ UNCHANGED <<ms1_scans, origin, xic_intensities, scan_times, ms1_count>>
             ELSE IF out.kind = "scan"
             THEN /\ ms1_scans' = ListAppend(ms1_scans, out.scan)
                  /\ origin' = Append(origin, Len(file) + 1)
                  /\ ms1_count' = ms1_count + 1
                  /\ IF fn = "xic"
                     THEN /\ xic_intensities' = AppendColumn(xic_intensities, out.current_xic)
                          /\ scan_times' = Append(scan_times, out.scan.scan_time)
                     ELSE UNCHANGED <<xic_intensities, scan_times>>
                  /\ UNCHANGED <<pc, result, cause>>
             ELSE UNCHANGED <<ms1_scans, origin, xic_intensities, scan_times, ms1_count,
                              pc, result, cause>>
    /\ UNCHANGED <<fn, target_masses, mass_accuracy, cancelled, calcVars>>

\* the parser meets malformed XML after the root element
ParseError ==
    /\ pc = "iter"
    /\ Fail("parse")
    /\ UNCHANGED <<fn, target_masses, mass_accuracy, file, ms1_scans, origin,
                   xic_intensities, scan_times, scan_count, ms1_count>>
    /\ UNCHANGED <<cancelled, held, calcVars>>

\* the event loop ends: return ms1_scans (and the XIC data)
EndOfFile ==
    /\ pc = "iter"
    /\ pc' = "returned"
    /\ result' = [ms1_scans |-> ms1_scans,
                  xic_data |-> IF fn = "xic"
                               THEN [xic_intensities |-> xic_intensities,
                                     scan_times |-> scan_times,
                                     target_masses |-> target_masses]
                               ELSE NoResult.xic_data]
    /\ UNCHANGED <<fn, target_masses, mass_accuracy, file, ms1_scans, origin,
                   xic_intensities, scan_times, scan_count, ms1_count, cause>>
    /\ UNCHANGED <<cancelled, held, calcVars>>

StreamSpectrum ==
    /\ Len(file) < MaxSpectra
    /\ \E elem \in FileSpectra(Len(file) + 1) : SpectrumEnd(elem)

SingleSpectrum ==
    /\ Len(file) < 1
    /\ \E elem \in ScanSpectra : SpectrumEnd(elem)

Next == Open \/ StreamSpectrum \/ ParseError \/ EndOfFile

NextScan == Open \/ SingleSpectrum \/ ParseError \/ EndOfFile

Spec == Init /\ [][Next]_vars

SpecScan == InitScan /\ [][NextScan]_vars

\* ------------------------------------------------------------ cancellation
\* the caller sets its cancellation signal while parse_ms1_fast runs; the
\* function takes the file path only and reads no signal
Cancel ==
    /\ pc \in {"start", "iter"}
    /\ ~cancelled
    /\ cancelled' = TRUE
    /\ UNCHANGED <<fn, target_masses, mass_accuracy, pc, file, ms1_scans, origin,
                   xic_intensities, scan_times, scan_count, ms1_count, result, cause,
                   held, calcVars>>

\* a call parse_ms1_fast(file_path) on a streamed file
InitCancel ==
    /\ fn = "fast" /\ target_masses = <<>> /\ mass_accuracy = 0
    /\ Locals(<<>>) /\ cancelled = FALSE /\ NoCalc

NextCancel == Open \/ StreamSpectrum \/ ParseError \/ EndOfFile \/ Cancel

SpecCancel == InitCancel /\ [][NextCancel]_vars

\* a call parse_ms1_fast(file_path) that nobody cancels
InitFast == InitCancel

SpecFast == InitFast /\ [][Next]_vars

\* ============================================== the calculation layer
\* no call of the parser is under way
NoParse ==
    /\ fn = "none" /\ target_masses = <<>> /\ mass_accuracy = 0
    /\ Locals(<<>>) /\ cancelled = FALSE

\* ------------------------------------------------ floating-point numbers
\* A float is not-a-number, an infinity (n is its sign) or the finite value
\* n/d in lowest terms.  Arithmetic is exact up to MaxFloat, the largest
\* finite magnitude, and overflows to an infinity beyond it.
NaN == [k |-> "nan", n |-> 0, d |-> 1]
Inf(sign) == [k |-> "inf", n |-> sign, d |-> 1]
Num(n, d) == [k |-> "num", n |-> n, d |-> d]

Abs(x) == IF x < 0 THEN -x ELSE x
Sign(x) == IF x < 0 THEN -1 ELSE IF x > 0 THEN 1 ELSE 0

RECURSIVE GCD(_, _)
GCD(a, b) == IF b = 0 THEN a ELSE GCD(b, a % b)

\* the float of the exact result n/d (d > 0)
Finite(n, d) ==
    IF Abs(n) > MaxFloat * d THEN Inf(Sign(n))
    ELSE LET g == GCD(Abs(n), d) IN Num(n \div g, d \div g)

\* a - b
fsub(a, b) ==
    IF a.k = "nan" \/ b.k = "nan" THEN NaN
    ELSE IF a.k = "inf" THEN (IF b.k = "inf" /\ b.n = a.n THEN NaN ELSE a)
    ELSE IF b.k = "inf" THEN Inf(-b.n)
    ELSE Finite(a.n * b.d - b.n * a.d, a.d * b.d)

\* an exception in place of a value
Raises == [k |-> "raise", n |-> 0, d |-> 1]

\* a / b: the outcomes; a zero divisor raises ZeroDivisionError for Python
\* floats and gives an infinity or not-a-number for numpy floats
fdiv(a, b) ==
    IF a.k = "nan" \/ b.k = "nan" THEN {NaN}
    ELSE IF b.k = "inf" THEN {IF a.k = "inf" THEN NaN ELSE Num(0, 1)}
    ELSE IF b.n = 0
    THEN {Raises, IF a.k = "inf" THEN a ELSE IF a.n = 0 THEN NaN ELSE Inf(Sign(a.n))}
    ELSE IF a.k = "inf" THEN {Inf(a.n * Sign(b.n))}
    ELSE {Finite(a.n * b.d * Sign(b.n), a.d * Abs(b.n))}

\* np.isnan(x), np.isfinite(x)
isnan(x) == x.k = "nan"
isfinite(x) == x.k = "num"

\* a decimal value sign * (int + frac / 10^RoundDigits)
Dec(sign, int, frac) == [k |-> "dec", sign |-> sign, int |-> int, frac |-> frac]
Zero == Dec(1, 0, 0)

RECURSIVE Pow10(_)
Pow10(k) == IF k = 0 THEN 1 ELSE 10 * Pow10(k - 1)

\* the first k decimal digits of r/d (0 <= r < d) and the remainder after them
RECURSIVE LongDiv(_, _, _, _)
LongDiv(r, d, k, digits) ==
    IF k = 0 THEN [digits |-> digits, r |-> r]
    ELSE LongDiv((10 * r) % d, d, k - 1, 10 * digits + (10 * r) \div d)

\* round(x, ndigits) of a finite x: the nearest decimal value of ndigits
\* digits; when x lies midway between two of them on paper the float that
\* holds it lies on one side or the other, and either neighbour may result
round(x, ndigits) ==
    LET a == Abs(x.n)
        int == a \div x.d
        tail == LongDiv(a % x.d, x.d, ndigits, 0)
        fracs == IF 2 * tail.r < x.d THEN {tail.digits}
                 ELSE IF 2 * tail.r > x.d THEN {tail.digits + 1}
                 ELSE {tail.digits, tail.digits + 1}
    IN  { IF frac = Pow10(ndigits) THEN Dec(IF x.n < 0 THEN -1 ELSE 1, int + 1, 0)
          ELSE IF int = 0 /\ frac = 0 THEN Zero
          ELSE Dec(IF x.n < 0 THEN -1 ELSE 1, int, frac) : frac \in fracs }

\* what calculate_concentration does with the quotient conc
ClampAndRound(conc) ==
    IF conc.k = "raise" THEN {Raises}
    ELSE IF isnan(conc) \/ ~isfinite(conc) THEN {Zero}
    ELSE round(conc, RoundDigits)

\* mutant: the slope is not tested for 0
calculate_concentration_unguarded(area, curve_params) ==
    UNION {ClampAndRound(conc) :
             conc \in fdiv(fsub(area, curve_params.intercept), curve_params.slope)}

\* mutant: a non-finite quotient is returned as it is
calculate_concentration_unclamped(area, curve_params) ==
    IF curve_params.slope.k = "num" /\ curve_params.slope.n = 0 THEN {Zero}
    ELSE UNION {IF conc.k = "num" THEN round(conc, RoundDigits) ELSE {conc} :
                  conc \in fdiv(fsub(area, curve_params.intercept), curve_params.slope)}

\* mutant: the intercept is not subtracted
calculate_concentration_no_intercept(area, curve_params) ==
    IF curve_params.slope.k = "num" /\ curve_params.slope.n = 0 THEN {Zero}
    ELSE UNION {ClampAndRound(conc) : conc \in fdiv(area, curve_params.slope)}

\* calculate_concentration(area, curve_params): the values it may return
\* (Raises: it raised)
calculate_concentration(area, curve_params) ==
    LET slope == curve_params.slope
        intercept == curve_params.intercept
    IN  IF slope.k = "num" /\ slope.n = 0 THEN {Zero}
        ELSE UNION {ClampAndRound(conc) : conc \in fdiv(fsub(area, intercept), slope)}

\* the floats a call is made with
FloatInputs ==
    {NaN, Inf(1), Inf(-1), Num(1, 2), Num(-1, 2)}
        \cup {Num(n, 1) : n \in {-MaxFloat, -1, 0, 1, 2, 500, 1000, MaxFloat}}

\* a call calculate_concentration(area, {slope, intercept})
InitConc ==
    /\ NoParse
    /\ op = "calculate_concentration"
    /\ args \in [area : FloatInputs, slope : FloatInputs, intercept : FloatInputs]
    /\ calc = [pc |-> "called", value |-> Zero]

CalculateConcentration ==
    /\ op = "calculate_concentration" /\ calc.pc = "called"
    /\ \E value \in calculate_concentration(
                       args.area, [slope |-> args.slope, intercept |-> args.intercept]) :
          calc' = IF value.k = "raise" THEN [pc |-> "raised", value |-> Zero]
                  ELSE [pc |-> "returned", value |-> value]
    /\ UNCHANGED <<fn, target_masses, mass_accuracy, pc, file, ms1_scans, origin,
                   xic_intensities, scan_times, scan_count, ms1_count, result, cause,
                   cancelled, held, op, args>>

NextConc == CalculateConcentration

SpecConc == InitConc /\ [][NextConc]_vars

\* ---------------------------------------------------------------- calibrate
\* Signals are counted in halves, so that a sum of intensities may fall
\* between two integers.
\* np.round(x, 0) of x = halves / 2 >= 0, in halves: to the nearest integer,
\* a tie to the even one
RoundToInteger(halves) ==
    LET q == halves \div 2
    IN  IF halves % 2 = 0 THEN halves
        ELSE IF q % 2 = 0 THEN 2 * q ELSE 2 * (q + 1)

\* ion_data: the 'MS Peak Area' entry (present: the key is there; has: it
\* holds a baseline_corrected_area) and the 'MS Intensity' entry
IonData(present, has, area, intensity) ==
    [present |-> present, has |-> has, area |-> area, intensity |-> intensity]

\* ion_data.get('MS Peak Area', {}).get('baseline_corrected_area', 0)
GetArea(ion_data) == IF ion_data.present /\ ion_data.has THEN ion_data.area ELSE 0

\* the else branch: the rounded sum of the intensities, when there are any
IntensityFallback(ion_data, acc) ==
    IF ion_data.intensity.some
    THEN [acc EXCEPT !.compound_signal = @ + RoundToInteger(SumSeq(ion_data.intensity.arr)),
                     !.paths = Append(@, "intensity")]
    ELSE [acc EXCEPT !.paths = Append(@, "none")]

\* mutant: the area is taken whenever the ion has a peak area entry
ExtractSignal_unchecked(variant, ion_data, acc) ==
    IF ion_data.present
    THEN [acc EXCEPT !.compound_signal = @ + GetArea(ion_data),
                     !.use_peak_areas = TRUE,
                     !.paths = Append(@, "area")]
    ELSE IntensityFallback(ion_data, acc)

\* the body of calibrate's loop over the ions of a compound, as the two
\* descriptions of it give it; paths records the branch each ion took
ExtractSignal(variant, ion_data, acc) ==
    LET area == GetArea(ion_data)
        takesArea == IF variant = "pipeline"
                     THEN area # 0 /\ area > 0
                     ELSE ion_data.present /\ area > 0
    IN  IF takesArea
        THEN [acc EXCEPT !.compound_signal = @ + area,
                         !.use_peak_areas = TRUE,
                         !.paths = Append(@, "area")]
        ELSE IntensityFallback(ion_data, acc)

\* the ions a compound of a calibration file may hold
IonInputs ==
    {IonData(pr[1], pr[2], pr[3], intensity) :
        pr \in {<<FALSE, FALSE, 0>>, <<TRUE, FALSE, 0>>, <<TRUE, TRUE, 0>>, <<TRUE, TRUE, 3>>},
        intensity \in {None, Some(<<1>>), Some(<<1, 2>>), Some(<<4>>)}}

\* compound_signal = 0; use_peak_areas = False
InitCalibrate ==
    /\ NoParse
    /\ op = "calibrate"
    /\ args \in [variant : {"pipeline", "details"}, ions : SeqsUpTo(IonInputs, MaxIons)]
    /\ calc = [i |-> 1, compound_signal |-> 0, use_peak_areas |-> FALSE, paths |-> <<>>]

\* one pass of: for ion in compound.ions.keys()
CalibrateIon ==
    /\ op = "calibrate" /\ calc.i <= Len(args.ions)
    /\ calc' = [ExtractSignal(args.variant, args.ions[calc.i], calc) EXCEPT !.i = @ + 1]
    /\ UNCHANGED <<fn, target_masses, mass_accuracy, pc, file, ms1_scans, origin,
                   xic_intensities, scan_times, scan_count, ms1_count, result, cause,
                   cancelled, held, op, args>>

NextCalibrate == CalibrateIon

SpecCalibrate == InitCalibrate /\ [][NextCalibrate]_vars

\* ------------------------------------------------- safe_peak_integration
\* a peak area record: the area and the quality score
PeakArea(area, quality) == [area |-> area, quality |-> quality]

\* what a call integration_func(*args) does: it returns a value or raises
\* InsufficientDataError or another Exception
Returns(value) == [kind |-> "return", value |-> value]
RaisesError(kind) == [kind |-> kind, value |-> PeakArea(0, 0)]

\* create_fallback_peak_area(intensities, window): the sum of the
\* intensities in the window, or of the whole series without a window, and
\* the quality score 0
create_fallback_peak_area(intensities, window) ==
    IF window.some
    THEN PeakArea(SumSeq(SubSeq(intensities, window.arr[1], window.arr[2])), 0)
    ELSE PeakArea(SumSeq(intensities), 0)

\* the result of safe_peak_integration, or the exception that leaves it
Propagated(kind) == [ok |-> FALSE, kind |-> kind, value |-> PeakArea(0, 0)]
Result(value) == [ok |-> TRUE, kind |-> "return", value |-> value]

\* mutant: only InsufficientDataError is caught
safe_peak_integration_narrow(integration_func, intensities, window) ==
    IF integration_func.kind = "return" THEN Result(integration_func.value)
    ELSE IF integration_func.kind = "InsufficientDataError"
    THEN Result(create_fallback_peak_area(intensities, window))
    ELSE Propagated(integration_func.kind)

\* safe_peak_integration(integration_func, *args)
safe_peak_integration(integration_func, intensities, window) ==
    IF integration_func.kind = "return" THEN Result(integration_func.value)
    ELSE IF integration_func.kind = "InsufficientDataError"
    THEN Result(create_fallback_peak_area(intensities, window))
    ELSE Result(create_fallback_peak_area(intensities, window))

\* the calls of a batch: what the integration function does on the peak, the
\* intensity series and the window
PeakInputs ==
    {[integration_func |-> f, intensities |-> <<1, 2, 4>>, window |-> w] :
        f \in {Returns(PeakArea(5, 1)), RaisesError("InsufficientDataError"),
               RaisesError("Exception")},
        w \in {None, Some(<<2, 3>>)}}

\* a caller about to integrate the peaks of a batch, one after the other
InitSafe ==
    /\ NoParse
    /\ op = "safe_peak_integration"
    /\ args \in SeqsUpTo(PeakInputs, MaxPeaks)
    /\ calc = [pc |-> "batch", results |-> <<>>]

\* the caller's next call of safe_peak_integration; an exception that leaves
\* it ends the batch
SafeIntegrate ==
    /\ op = "safe_peak_integration" /\ calc.pc = "batch"
    /\ Len(calc.results) < Len(args)
    /\ LET peak == args[Len(calc.results) + 1]
           r == safe_peak_integration(peak.integration_func, peak.intensities, peak.window)
       IN  calc' = IF r.ok THEN [calc EXCEPT !.results = Append(@, r.value)]
                   ELSE [calc EXCEPT !.pc = "raised"]
    /\ UNCHANGED <<fn, target_masses, mass_accuracy, pc, file, ms1_scans, origin,
                   xic_intensities, scan_times, scan_count, ms1_count, result, cause,
                   cancelled, held, op, args>>

NextSafe == SafeIntegrate

SpecSafe == InitSafe /\ [][NextSafe]_vars

\* ----------------------------------------- integrate_peak_area_trapezoidal
\* Areas are counted in halves; the retention times are one unit apart.
\* trapezoidal-rule integration of y over the window left..right
Trapezoid(y, left, right) ==
    SumSeq([k \in 1..(right - left) |-> y[left + k - 1] + y[left + k]])

\* the baseline: linear interpolation between the intensities at the two
\* boundary indices, pointwise across the window, times (right - left) to
\* stay in whole numbers
calculate_baseline_linear(y, left, right) ==
    [k \in 1..(right - left + 1) |->
        y[left] * (right - left - (k - 1)) + y[right] * (k - 1)]

Max(a, b) == IF a >= b THEN a ELSE b

\* mutant: the corrected area is not clamped at 0
integrate_peak_area_trapezoidal_unclamped(y, left, right) ==
    LET total == Trapezoid(y, left, right)
        baseline == calculate_baseline_linear(y, left, right)
        baseline_area == Trapezoid(baseline, 1, right - left + 1) \div (right - left)
    IN  [raw_area |-> total, baseline_area |-> baseline_area,
         baseline_corrected_area |-> total - baseline_area]

\* total area, baseline area and corrected area = total area - baseline
\* area, clamped to >= 0
integrate_peak_area_trapezoidal(y, left, right) ==
    LET total == Trapezoid(y, left, right)
        baseline == calculate_baseline_linear(y, left, right)
        baseline_area == Trapezoid(baseline, 1, right - left + 1) \div (right - left)
    IN  [raw_area |-> total, baseline_area |-> baseline_area,
         baseline_corrected_area |-> Max(0, total - baseline_area)]

\* a peak to integrate: an intensity series and two boundary indices with a
\* point between or on them
InitIntegrate ==
    /\ NoParse
    /\ op = "integrate_peak_area_trapezoidal"
    /\ \E y \in SeqsUpTo(-1..MaxIntensity, MaxPoints) :
          \E left, right \in 1..Len(y) :
              /\ left < right
              /\ args = [intensities |-> y, left |-> left, right |-> right]
    /\ calc = [pc |-> "called", raw_area |-> 0, baseline_area |-> 0,
               baseline_corrected_area |-> 0]

IntegratePeak ==
    /\ op = "integrate_peak_area_trapezoidal" /\ calc.pc = "called"
    /\ LET r == integrate_peak_area_trapezoidal(args.intensities, args.left, args.right)
       IN  calc' = [pc |-> "returned", raw_area |-> r.raw_area,
                    baseline_area |-> r.baseline_area,
                    baseline_corrected_area |-> r.baseline_corrected_area]
    /\ UNCHANGED <<fn, target_masses, mass_accuracy, pc, file, ms1_scans, origin,
                   xic_intensities, scan_times, scan_count, ms1_count, result, cause,
                   cancelled, held, op, args>>

NextIntegrate == IntegratePeak

SpecIntegrate == InitIntegrate /\ [][NextIntegrate]_vars

\* ------------------------------------------------- decode_binary_data
\* the byte strings of up to MaxCells cells
ByteStrings ==
    {Bytes(cells, rem) : cells \in SeqsUpTo(0..1, MaxCells), rem \in 0..3}

\* what the decompressors make of a byte string: an error, or bytes
Decompressed ==
    {NotBytes} \cup {Bytes(cells, rem) : cells \in SeqsUpTo({1}, MaxCells), rem \in {0, 2}}

\* the payload texts: base64 text is accepted, text that is not base64 is
\* rejected or read with its stray characters dropped; no byte string is
\* both a zlib stream and a gzip stream, and the empty one is neither
PayloadTexts ==
    {TextBadBase64}
    \cup {TextStray64(vals) : vals \in SeqsUpTo(0..1, 1)}
    \cup {t \in [valid : BOOLEAN, b64 : {TRUE}, raw : ByteStrings,
                 zlib : Decompressed, gzip : Decompressed] :
            /\ ~(t.zlib.ok /\ t.gzip.ok)
            /\ (t.zlib.ok \/ t.gzip.ok) => ByteCount(t.raw) > 0}

InitDecode ==
    /\ NoParse
    /\ op = "decode_binary_data"
    /\ args \in [binary_data : PayloadTexts, precision : {"32", "64"},
                 compression : {"none", "zlib", "gzip"}]
    /\ calc = [pc |-> "called", value |-> Raised]

DecodeBinaryData ==
    /\ op = "decode_binary_data" /\ calc.pc = "called"
    /\ LET value == decode_binary_data(args.binary_data, args.precision, args.compression)
       IN  calc' = [pc |-> IF value.ok THEN "returned" ELSE "raised", value |-> value]
    /\ UNCHANGED <<fn, target_masses, mass_accuracy, pc, file, ms1_scans, origin,
                   xic_intensities, scan_times, scan_count, ms1_count, result, cause,
                   cancelled, held, op, args>>

NextDecode == DecodeBinaryData

SpecDecode == InitDecode /\ [][NextDecode]_vars

\* ----------------------------------------------------- construct_xics
\* The objects of the call live in a heap: a function from references to
\* values.  The caller's compound list is at "ion_list", its scans are at
\* "data"; a compound is its ions in key order, each with the XIC stored on
\* it (None: none yet).
Ion(mass) == [ion |-> mass, xic |-> None]
Compound(masses) == [ions |-> [k \in 1..Len(masses) |-> Ion(masses[k])]]

\* mutant: compounds = ion_list, the list itself and no copy of it
deepcopy_alias(heap, ref) == [heap |-> heap, ref |-> ref]

\* copy.deepcopy(ion_list): a new list of new compounds with equal values
deepcopy(heap, ref) == [heap |-> ("copy" :> heap[ref]) @@ heap, ref |-> "copy"]

\* "store xic per ion": on the ion of the compound the loop is at
StoreXic(heap, compounds, c, i, xic) ==
    [heap EXCEPT ![compounds][c].ions[i].xic = Some(xic)]

\* the position of the loops after the pass for ion i of compound c
NextIon(compounds, c, i) ==
    IF i < Len(compounds[c].ions) THEN <<c, i + 1>> ELSE <<c + 1, 1>>

\* the scans and compound lists of the calls
XicScans ==
    {FastMS1Scan(1, <<1, 2>>, <<1, 2>>, 1, 3), FastMS1Scan(2, <<2, 5>>, <<4, 8>>, 1, 12)}
Compounds == {Compound(masses) : masses \in TargetLists(FileTargets, MaxIons)}

InitConstruct ==
    /\ NoParse
    /\ op = "construct_xics"
    /\ args \in [data : SeqsUpTo(XicScans, MaxScans),
                 ion_list : SeqsUpTo(Compounds, MaxCompounds),
                 mass_accuracy : Accuracies]
    /\ calc = [pc |-> "called",
               heap |-> ("ion_list" :> args.ion_list) @@ ("data" :> args.data),
               compounds |-> "none", c |-> 1, i |-> 1]

\* compounds = copy.deepcopy(ion_list)
ConstructCopy ==
    /\ op = "construct_xics" /\ calc.pc = "called"
    /\ LET made == deepcopy(calc.heap, "ion_list")
       IN  calc' = [calc EXCEPT !.pc = "loop", !.heap = made.heap, !.compounds = made.ref]
    /\ UNCHANGED <<fn, target_masses, mass_accuracy, pc, file, ms1_scans, origin,
                   xic_intensities, scan_times, scan_count, ms1_count, result, cause,
                   cancelled, held, op, args>>

\* a compound with no ions: the inner loop has no pass
ConstructSkipCompound ==
    /\ op = "construct_xics" /\ calc.pc = "loop"
    /\ calc.c <= Len(calc.heap[calc.compounds])
    /\ calc.heap[calc.compounds][calc.c].ions = <<>>
    /\ calc' = [calc EXCEPT !.c = @ + 1, !.i = 1]
    /\ UNCHANGED <<fn, target_masses, mass_accuracy, pc, file, ms1_scans, origin,
                   xic_intensities, scan_times, scan_count, ms1_count, result, cause,
                   cancelled, held, op, args>>

\* one pass of "for ion in compound.ions.keys()": the scan loop and the store
ConstructIon ==
    /\ op = "construct_xics" /\ calc.pc = "loop"
    /\ calc.c <= Len(calc.heap[calc.compounds])
    /\ calc.i <= Len(calc.heap[calc.compounds][calc.c].ions)
    /\ LET compounds == calc.heap[calc.compounds]
           ion == compounds[calc.c].ions[calc.i].ion
           xic == construct_xics(calc.heap["data"], ion, args.mass_accuracy)
           next == NextIon(compounds, calc.c, calc.i)
       IN  calc' = [calc EXCEPT !.heap = StoreXic(calc.heap, calc.compounds, calc.c, calc.i, xic),
                                !.c = next[1], !.i = next[2]]
    /\ UNCHANGED <<fn, target_masses, mass_accuracy, pc, file, ms1_scans, origin,
                   xic_intensities, scan_times, scan_count, ms1_count, result, cause,
                   cancelled, held, op, args>>

\* the loops are over: the call ends
ConstructReturn ==
    /\ op = "construct_xics" /\ calc.pc = "loop"
    /\ calc.c > Len(calc.heap[calc.compounds])
    /\ calc' = [calc EXCEPT !.pc = "returned"]
    /\ UNCHANGED <<fn, target_masses, mass_accuracy, pc, file, ms1_scans, origin,
                   xic_intensities, scan_times, scan_count, ms1_count, result, cause,
                   cancelled, held, op, args>>

NextConstruct == ConstructCopy \/ ConstructSkipCompound \/ ConstructIon \/ ConstructReturn

SpecConstruct == InitConstruct /\ [][NextConstruct]_vars

\* ------------------------------- parse_csv_fast, load_absorbance_data_fast
\* A file is its characters.  Capacities and the line buffer are scaled:
\* InitialCapacity stands for the 1000 elements of the first allocation,
\* LineSize for the 1024 bytes of the line buffer.
Whitespace == {" ", "\n", "\t"}
Digits == {"0", "1", "2"}

DigitValue(c) == IF c = "1" THEN 1 ELSE IF c = "2" THEN 2 ELSE 0

\* fgets(line, sizeof(line), file) at position pos (0-based) of the stream:
\* the characters up to and with the next newline, LineSize - 1 at most
\* (<<>>: end of file)
fgets(stream, pos) ==
    LET rest == SubSeq(stream, pos + 1, Len(stream))
        ends == {k \in 1..Len(rest) : rest[k] = "\n"}
        upto == IF ends = {} THEN Len(rest) ELSE CHOOSE k \in ends : \A j \in ends : k <= j
    IN  SubSeq(rest, 1, Min(upto, LineSize - 1))

detect_delimiter_fast(line) ==
    IF "," \in {line[k] : k \in 1..Len(line)} THEN ","
    ELSE IF "\t" \in {line[k] : k \in 1..Len(line)} THEN "\t"
    ELSE IF " " \in {line[k] : k \in 1..Len(line)} THEN " "
    ELSE "none"

\* "Detect delimiter from first few lines": pass i of the loop
RECURSIVE DetectDelimiter(_, _, _, _)
DetectDelimiter(stream, pos, i, delimiter) ==
    LET line == fgets(stream, pos)
        detected == detect_delimiter_fast(line)
    IN  IF i >= 5 \/ line = <<>> THEN delimiter
        ELSE IF detected # "none" /\ delimiter # "none" /\ delimiter # detected THEN ","
        ELSE DetectDelimiter(stream, pos + Len(line), i + 1,
                             IF detected # "none" /\ delimiter = "none"
                             THEN detected ELSE delimiter)

\* the delimiter after "if (delimiter == '\0') delimiter = ','"
Delimiter(stream) ==
    LET delimiter == DetectDelimiter(stream, 0, 0, "none")
    IN  IF delimiter = "none" THEN "," ELSE delimiter

\* the tokens strtok(line, delims), strtok(NULL, delims), ... return: the
\* maximal runs of characters that are not in delims
RECURSIVE strtok(_, _, _, _)
strtok(line, delims, token, tokens) ==
    IF line = <<>> THEN IF token = <<>> THEN tokens ELSE Append(tokens, token)
    ELSE IF Head(line) \in delims
    THEN strtok(Tail(line), delims, <<>>,
                IF token = <<>> THEN tokens ELSE Append(tokens, token))
    ELSE strtok(Tail(line), delims, Append(token, Head(line)), tokens)

\* strtod(token, &endptr): leading white space is skipped, then the longest
\* decimal numeral is read; ok is endptr # token
RECURSIVE strtod(_, _, _)
strtod(token, started, val) ==
    IF token = <<>> THEN [ok |-> started, val |-> val]
    ELSE IF ~started /\ Head(token) \in Whitespace THEN strtod(Tail(token), FALSE, 0)
    ELSE IF Head(token) \in Digits
    THEN strtod(Tail(token), TRUE, 10 * val + DigitValue(Head(token)))
    ELSE [ok |-> started, val |-> val]

\* a heap block of doubles behind a pointer: "null", "live" or "freed"
Buffer(ptr, cap, vals) == [ptr |-> ptr, cap |-> cap, vals |-> vals]
NullBuffer == Buffer("null", 0, <<>>)

\* malloc(capacity * sizeof(double))
malloc(ok, capacity) == IF ok THEN Buffer("live", capacity, <<>>) ELSE NullBuffer

\* p = realloc(p, capacity * sizeof(double)): on failure the result is NULL
\* and the old block stays allocated
realloc(buffer, ok, capacity) ==
    IF ok THEN Buffer("live", capacity, buffer.vals) ELSE NullBuffer

\* free(p): nothing for NULL
free(buffer) == IF buffer.ptr = "live" THEN [buffer EXCEPT !.ptr = "freed"] ELSE buffer

\* buffer[index] = val, and what goes wrong with it
Store(buffer, index, val) ==
    IF buffer.ptr = "live" /\ index < buffer.cap
    THEN [buffer EXCEPT !.vals = Append(SubSeq(@, 1, index), val)]
    ELSE buffer
StoreFaults(buffer, index) ==
    (IF buffer.ptr # "live" THEN {"write through " \o buffer.ptr \o " pointer"} ELSE {})
    \cup (IF buffer.ptr = "live" /\ index >= buffer.cap THEN {"write beyond capacity"} ELSE {})
\* buffer[0], ..., buffer[size - 1]: what a live block holds of them
ReadBuffer(buffer, size) ==
    IF buffer.ptr = "live" THEN Prefix(buffer.vals, Min(size, Len(buffer.vals))) ELSE <<>>
LoadFaults(buffer, size) ==
    IF size > 0 /\ buffer.ptr # "live" THEN {"read through " \o buffer.ptr \o " pointer"} ELSE {}

\* the lines of the files
CsvLines ==
    { <<"1", ",", "2", "\n">>,                          \* a data line
      <<"x", ",", "x", "\n">>,                          \* a header
      <<"\n">>,                                         \* a blank line
      <<",", "2", ",", "1", "\n">>,                     \* an empty first field
      <<"2", " ", "1", "\n">>,                          \* separated by a space
      <<"1", ",", "x", "\n">>,                          \* no number in the last field
      <<"1", ",", "2", ",", "x", ",", ",", "2", "\n">>  \* longer than the line buffer
    }

RECURSIVE Concat(_)
Concat(lines) == IF lines = <<>> THEN <<>> ELSE Head(lines) \o Concat(Tail(lines))

CsvFiles == {Concat(lines) : lines \in SeqsUpTo(CsvLines, MaxLines)}

\* the bytes after the one char 'delimiter' that strtok reads as more
\* delimiters, up to the first zero byte: whatever the stack holds there
StackBytes == {{}, {"x"}}

NoData == [state |-> "none", size |-> 0, capacity |-> 0,
           time_values |-> NullBuffer, intensity_values |-> NullBuffer]

InitCsv ==
    /\ NoParse
    /\ op = "load_absorbance_data_fast"
    /\ args \in [file : CsvFiles, after_delimiter : StackBytes]
    /\ calc = [pc |-> "called", file_open |-> FALSE, data |-> NoData, delimiter |-> "none",
               pos |-> 0, lost |-> 0, faults |-> {}, lists |-> "none",
               time_list |-> <<>>, intensity_list |-> <<>>]

\* fopen(filepath, "r")
CsvOpen ==
    /\ op = "load_absorbance_data_fast" /\ calc.pc = "called"
    /\ \E opened \in BOOLEAN :
          calc' = IF opened THEN [calc EXCEPT !.pc = "opened", !.file_open = TRUE]
                  ELSE [calc EXCEPT !.pc = "returned"]
    /\ UNCHANGED <<fn, target_masses, mass_accuracy, pc, file, ms1_scans, origin,
                   xic_intensities, scan_times, scan_count, ms1_count, result, cause,
                   cancelled, held, op, args>>

\* the three malloc calls and the two failure exits; then the delimiter
\* detection and rewind(file)
CsvAllocate ==
    /\ op = "load_absorbance_data_fast" /\ calc.pc = "opened"
    /\ \E okData \in BOOLEAN, okTime \in BOOLEAN, okIntensity \in BOOLEAN :
          LET time_values == malloc(okTime, InitialCapacity)
              intensity_values == malloc(okIntensity, InitialCapacity)
          IN  calc' =
                IF ~okData THEN [calc EXCEPT !.pc = "returned", !.file_open = FALSE]
                ELSE IF time_values.ptr = "null" \/ intensity_values.ptr = "null"
                THEN [calc EXCEPT !.pc = "returned", !.file_open = FALSE,
                                  !.data = [state |-> "freed", size |-> 0,
                                            capacity |-> InitialCapacity,
                                            time_values |-> free(time_values),
                                            intensity_values |-> free(intensity_values)]]
                ELSE [calc EXCEPT !.pc = "parse", !.pos = 0,
                                  !.delimiter = Delimiter(args.file),
                                  !.data = [state |-> "live", size |-> 0,
                                            capacity |-> InitialCapacity,
                                            time_values |-> time_values,
                                            intensity_values |-> intensity_values]]
    /\ UNCHANGED <<fn, target_masses, mass_accuracy, pc, file, ms1_scans, origin,
                   xic_intensities, scan_times, scan_count, ms1_count, result, cause,
                   cancelled, held, op, args>>

\* one pass of "while (fgets(line, sizeof(line), file))"
CsvLine ==
    /\ op = "load_absorbance_data_fast" /\ calc.pc = "parse"
    /\ fgets(args.file, calc.pos) # <<>>
    /\ \E okCopy \in BOOLEAN, okTime \in BOOLEAN, okIntensity \in BOOLEAN :
          LET line == fgets(args.file, calc.pos)
              tokens == strtok(line, {calc.delimiter} \cup args.after_delimiter, <<>>, <<>>)
              time_val == strtod(tokens[1], FALSE, 0)
              intensity_val == strtod(tokens[Len(tokens)], FALSE, 0)
              read == [calc EXCEPT !.pos = @ + Len(line)]
              data == calc.data
              full == data.size >= data.capacity
              capacity == IF full THEN 2 * data.capacity ELSE data.capacity
              time_values == IF full THEN realloc(data.time_values, okTime, capacity)
                             ELSE data.time_values
              intensity_values ==
                  IF full THEN realloc(data.intensity_values, okIntensity, capacity)
                  ELSE data.intensity_values
              lost == (IF data.time_values.ptr = "live" /\ time_values.ptr = "null"
                       THEN 1 ELSE 0)
                      + (IF data.intensity_values.ptr = "live" /\ intensity_values.ptr = "null"
                         THEN 1 ELSE 0)
              resized == [data EXCEPT !.capacity = capacity, !.time_values = time_values,
                                      !.intensity_values = intensity_values]
          IN  calc' =
                IF ~okCopy \/ tokens = <<>> \/ ~time_val.ok \/ ~intensity_val.ok THEN read
                ELSE IF time_values.ptr = "null" \/ intensity_values.ptr = "null"
                THEN \* break; fclose(file); return data
                     [read EXCEPT !.pc = "wrapper", !.file_open = FALSE,
                                  !.data = resized, !.lost = @ + lost]
                ELSE [read EXCEPT
                        !.data = [resized EXCEPT
                                    !.time_values = Store(@, data.size, time_val.val),
                                    !.intensity_values = Store(@, data.size, intensity_val.val),
                                    !.size = @ + 1],
                        !.faults = @ \cup StoreFaults(time_values, data.size)
                                     \cup StoreFaults(intensity_values, data.size)]
    /\ UNCHANGED <<fn, target_masses, mass_accuracy, pc, file, ms1_scans, origin,
                   xic_intensities, scan_times, scan_count, ms1_count, result, cause,
                   cancelled, held, op, args>>

\* fgets returns NULL: fclose(file); return data
CsvEndOfFile ==
    /\ op = "load_absorbance_data_fast" /\ calc.pc = "parse"
    /\ fgets(args.file, calc.pos) = <<>>
    /\ calc' = [calc EXCEPT !.pc = "wrapper", !.file_open = FALSE]
    /\ UNCHANGED <<fn, target_masses, mass_accuracy, pc, file, ms1_scans, origin,
                   xic_intensities, scan_times, scan_count, ms1_count, result, cause,
                   cancelled, held, op, args>>

\* free(data->time_values); free(data->intensity_values); free(data)
FreeData(data) ==
    [data EXCEPT !.state = "freed", !.time_values = free(@), !.intensity_values = free(@)]

\* load_absorbance_data_fast after parse_csv_fast returned data: the two
\* lists, the loop that fills them from the buffers, the import of pandas,
\* the DataFrame and the cleanup
CsvWrapper ==
    /\ op = "load_absorbance_data_fast" /\ calc.pc = "wrapper"
    /\ \E okLists \in BOOLEAN, okPandas \in BOOLEAN :
          LET data == calc.data
          IN  calc' =
                IF ~okLists THEN [calc EXCEPT !.pc = "returned", !.data = FreeData(data)]
                ELSE [calc EXCEPT
                        !.pc = "returned",
                        !.faults = @ \cup LoadFaults(data.time_values, data.size)
                                     \cup LoadFaults(data.intensity_values, data.size),
                        !.lists = IF okPandas THEN "frame" ELSE "none",
                        !.time_list = IF okPandas
                                      THEN ReadBuffer(data.time_values, data.size) ELSE <<>>,
                        !.intensity_list = IF okPandas
                                           THEN ReadBuffer(data.intensity_values, data.size)
                                           ELSE <<>>,
                        !.data = FreeData(data)]
    /\ UNCHANGED <<fn, target_masses, mass_accuracy, pc, file, ms1_scans, origin,
                   xic_intensities, scan_times, scan_count, ms1_count, result, cause,
                   cancelled, held, op, args>>

NextCsv == CsvOpen \/ CsvAllocate \/ CsvLine \/ CsvEndOfFile \/ CsvWrapper

SpecCsv == InitCsv /\ [][NextCsv]_vars

\* ------------------------------------------------------ LoadingWorker.run
\* The signals a run emits, in order.  "load and preprocess" is one step per
\* file: it reports progress and adds the file's results, or raises.
Signal(name, payload) == [name |-> name, payload |-> payload]

\* what loading one file does: its results are a dict, are no dict (emit
\* then rejects the arguments with a TypeError), or the step raises
LoadOutcomes == {"dict", "no dict", "ValueError", "MemoryError"}
IsException(outcome) == outcome \in {"ValueError", "MemoryError", "TypeError"}

WorkerFiles == {"a.mzML", "b.txt"}

\* mutant: the except clause logs the exception and emits nothing
ExceptClause_log_only(signals, e) == signals

\* except Exception as e: logger.error(...); self.error.emit(str(e))
ExceptClause(signals, e) == Append(signals, Signal("error", e))

InitWorker ==
    /\ NoParse
    /\ op = "LoadingWorker.run"
    /\ args \in SeqsUpTo(WorkerFiles, MaxFiles)
    /\ calc = [pc |-> "try", loaded |-> <<>>, well_typed |-> TRUE, e |-> "none",
               signals |-> <<>>]

\* one step of "load and preprocess" inside the try block
WorkerLoad ==
    /\ op = "LoadingWorker.run" /\ calc.pc = "try"
    /\ Len(calc.loaded) < Len(args)
    /\ \E outcome \in LoadOutcomes :
          LET name == args[Len(calc.loaded) + 1]
          IN  calc' =
                IF IsException(outcome)
                THEN [calc EXCEPT !.pc = "done", !.e = outcome,
                                  !.signals = ExceptClause(@, outcome)]
                ELSE [calc EXCEPT
                        !.loaded = Append(@, name),
                        !.well_typed = @ /\ outcome = "dict",
                        !.signals = Append(@, Signal("progressUpdated", name))]
    /\ UNCHANGED <<fn, target_masses, mass_accuracy, pc, file, ms1_scans, origin,
                   xic_intensities, scan_times, scan_count, ms1_count, result, cause,
                   cancelled, held, op, args>>

\* self.finished.emit(lc_results, ms_results): the last statement of the try
\* block; arguments that are no dicts raise a TypeError and nothing is emitted
WorkerEmitFinished ==
    /\ op = "LoadingWorker.run" /\ calc.pc = "try"
    /\ Len(calc.loaded) = Len(args)
    /\ calc' = IF calc.well_typed
               THEN [calc EXCEPT !.pc = "done",
                                 !.signals = Append(@, Signal("finished", calc.loaded))]
               ELSE [calc EXCEPT !.pc = "done", !.e = "TypeError",
                                 !.signals = ExceptClause(@, "TypeError")]
    /\ UNCHANGED <<fn, target_masses, mass_accuracy, pc, file, ms1_scans, origin,
                   xic_intensities, scan_times, scan_count, ms1_count, result, cause,
                   cancelled, held, op, args>>

NextWorker == WorkerLoad \/ WorkerEmitFinished

SpecWorker == InitWorker /\ [][NextWorker]_vars

\* ================================================================ claims
Range(s) == {s[i] : i \in 1..Len(s)}

\* the arrays of elem that have text, and those of them with this role
WithText(elem) == {k \in 1..Len(elem.arrays) : HasText(elem.arrays[k])}
WithRole(elem, role) ==
    {k \in WithText(elem) : ArrayMeta(elem.arrays[k]).array_type = role}

\* some array of elem fails to decode
FailingDecode(elem) == \E k \in WithText(elem) : ~DecodeArray(elem.arrays[k]).ok

\* elem has an array of this role that decodes
Decodes(elem, role) == \E k \in WithRole(elem, role) : DecodeArray(elem.arrays[k]).ok

\* the decoded array of this role (the last one in the spectrum that decodes)
RoleArray(elem, role) ==
    LET good == {k \in WithRole(elem, role) : DecodeArray(elem.arrays[k]).ok}
        last == CHOOSE k \in good : \A j \in good : j <= k
    IN  DecodeArray(elem.arrays[last]).arr

LevelParams(elem) == {i \in 1..Len(elem.params) : elem.params[i].accession = "MS:1000511"}
DeclaresNoLevel(elem) == LevelParams(elem) = {}
DeclaresLevel1(elem) == \E i \in LevelParams(elem) : elem.params[i].value = "1"
DeclaresOtherLevel(elem) == \E i \in LevelParams(elem) : elem.params[i].value # "1"

\* an MS1 spectrum that nothing is wrong with: both arrays are there and
\* every array decodes
CleanMs1(elem) ==
    /\ DeclaresNoLevel(elem) \/ DeclaresLevel1(elem)
    /\ ~FailingDecode(elem)
    /\ Decodes(elem, "mz") /\ Decodes(elem, "intensity")

\* the number of positions of (mz, intensity) that hold this pair
PairCount(mz, intensity, pair) ==
    Cardinality({k \in 1..Len(mz) : <<mz[k], intensity[k]>> = pair})

PairsOf(mz, intensity) == {<<mz[k], intensity[k]>> : k \in 1..Len(mz)}

\* the two pairs of arrays hold the same (mass, intensity) pairs, as often
SamePairs(mz1, int1, mz2, int2) ==
    /\ Len(mz1) = Len(mz2)
    /\ \A pair \in PairsOf(mz1, int1) \cup PairsOf(mz2, int2) :
          PairCount(mz1, int1, pair) = PairCount(mz2, int2, pair)

Aligned(scan) ==
    /\ Len(scan.mz_array) = Len(scan.intensity_array)
    /\ IsNonDecreasing(scan.mz_array)

\* the scans the call holds and, once it returned, the scans it returned
HeldScans == Range(ms1_scans) \cup Range(result.ms1_scans)

\* ---------------------------------------------------------------- C1
\* C1: for every target mass, mass accuracy and every scan whose m/z array is
\* non-decreasing and as long as its intensity array, the XIC sample of
\* parse_ms1_with_xic_optimization (binary search for t-3a on the left and
\* t+3a on the right, sum of the slice) equals the sum the linear scan of
\* construct_xics computes over the points with t-3a <= m/z <= t+3a.
C1_XicEqualsLinearScan ==
    fn = "xic" =>
        \A i \in 1..Len(ms1_scans) :
            Aligned(ms1_scans[i]) =>
                \A j \in 1..Len(target_masses) :
                    xic_intensities.cols[i][j] =
                        ConstructXicSample(ms1_scans[i], target_masses[j], mass_accuracy)

\* two equal masses on the bounds of the window [2, 2], a third outside it
C1_Witness ==
    /\ fn = "xic" /\ pc = "returned"
    /\ target_masses = <<2>> /\ mass_accuracy = 0
    /\ Len(result.ms1_scans) = 1
    /\ result.ms1_scans[1].mz_array = <<2, 2, 3>>
    /\ result.ms1_scans[1].intensity_array = <<1, 2, 4>>
    /\ result.xic_data.xic_intensities.cols[1] = <<3>>

\* ---------------------------------------------------------------- C2
\* C2: every scan returned by parse_ms1_fast has an m/z array and an
\* intensity array of equal length, and a non-decreasing m/z array.
C2_FastScansAligned ==
    fn = "fast" => \A scan \in HeldScans : Aligned(scan)

\* a returned scan whose spectrum had three masses, not ascending, and two
\* intensities
C2_Witness ==
    /\ fn = "fast" /\ pc = "returned"
    /\ Len(file) = 1 /\ Len(result.ms1_scans) = 1
    /\ RoleArray(file[1], "mz") = <<3, 1, 2>>
    /\ RoleArray(file[1], "intensity") = <<1, 2>>
    /\ result.ms1_scans[1].mz_array = <<1, 3>>

\* ---------------------------------------------------------------- C3
\* C3: in parse_ms1_with_xic_optimization, whenever the binary-search window
\* query is made on a scan, the scan's m/z array is sorted ascending and as
\* long as its intensity array.
C3_XicQueriesAlignedScans ==
    fn = "xic" /\ target_masses # <<>> => \A scan \in HeldScans : Aligned(scan)

\* ---------------------------------------------------------------- C4
\* C4: in parse_ms1_fast a failing decode of one array omits only the scan
\* it belongs to: the call does not fail, and every MS1 spectrum of the file
\* that nothing is wrong with, before or after the failing one, is returned.
C4_FastSkipsOnlyFailingScan ==
    fn = "fast" =>
        /\ cause # "decode"
        /\ (\E p \in 1..Len(file) : FailingDecode(file[p])) /\ cause = "none"
               => pc \in {"iter", "returned"}
        /\ cause = "none" =>
              \A p \in 1..Len(file) :
                  /\ CleanMs1(file[p]) => p \in Range(origin)
                  /\ ~Decodes(file[p], "mz") \/ ~Decodes(file[p], "intensity")
                        => p \notin Range(origin)
        /\ pc = "returned" /\ cause = "none" => result.ms1_scans = ms1_scans

\* three spectra, the second with a failing array: the first and the third
\* are returned
C4_Witness ==
    /\ fn = "fast" /\ pc = "returned" /\ cause = "none"
    /\ Len(file) = 3
    /\ CleanMs1(file[1]) /\ FailingDecode(file[2]) /\ CleanMs1(file[3])
    /\ origin = <<1, 3>>
    /\ Len(result.ms1_scans) = 2

\* ---------------------------------------------------------------- C5
\* C5: in parse_ms1_with_xic_optimization a decode failure in one scan's array
\* is recovered by skipping that scan: the call is not left by the failure.
C5_XicRecoversFromDecodeFailure ==
    fn = "xic" => cause # "decode"

\* ---------------------------------------------------------------- C6
\* C6: when the container cannot be parsed, both functions fail the whole
\* operation with an error surfaced to the caller.
C6_InvalidContainerRaises ==
    cause = "parse" => pc = "raised"

\* ---------------------------------------------------------------- C7
\* the XIC xic, the scan times and the scans are index-aligned
XicAligned(xic, times, scans) ==
    /\ xic.shape = <<Len(target_masses), Len(scans)>>
    /\ Len(xic.cols) = Len(scans)
    /\ Len(times) = Len(scans)
    /\ \A i \in 1..Len(scans) :
          /\ Len(xic.cols[i]) = Len(target_masses)
          /\ times[i] = scans[i].scan_time
          /\ \A j \in 1..Len(target_masses) :
                xic.cols[i][j] = XicSample(scans[i].mz_array, scans[i].intensity_array,
                                           target_masses[j],
                                           ToleranceFactor * mass_accuracy)

C8_OnlyMs1Returned ==
    /\ \A scan \in HeldScans : scan.ms_level = 1
    /\ \A i \in 1..Len(origin) : ~DeclaresOtherLevel(file[origin[i]])
    /\ cause = "none" =>
          \A p \in 1..Len(file) :
              DeclaresNoLevel(file[p]) /\ CleanMs1(file[p]) => p \in Range(origin)
    /\ pc = "returned" /\ cause = "none" => result.ms1_scans = ms1_scans

\* an MS2 spectrum and then one with no MS level: only the second is returned
C8_Witness ==
    /\ pc = "returned" /\ cause = "none"
    /\ Len(file) = 2
    /\ DeclaresOtherLevel(file[1]) /\ DeclaresNoLevel(file[2])
    /\ origin = <<2>>
    /\ Len(result.ms1_scans) = 1 /\ result.ms1_scans[1].ms_level = 1

\* ---------------------------------------------------------------- C9
\* the scans parse_ms1_fast may build from elem
ScansOf(elem) == {out.scan : out \in {o \in SpectrumFast(elem) : o.kind = "scan"}}

IsSubsequenceOfFile(scans) ==
    \E f \in [1..Len(scans) -> 1..Len(file)] :
        /\ \A i, j \in 1..Len(scans) : i < j => f[i] < f[j]
        /\ \A i \in 1..Len(scans) : scans[i] \in ScansOf(file[f[i]])

\* C9: the scans returned by parse_ms1_fast are, in order, the scans of a
\* subsequence of the file's spectra: nothing is reordered or duplicated.
C9_FastKeepsFileOrder ==
    fn = "fast" =>
        /\ IsSubsequenceOfFile(ms1_scans)
        /\ pc = "returned" => IsSubsequenceOfFile(result.ms1_scans)
        /\ pc = "returned" /\ cause = "none" => result.ms1_scans = ms1_scans

\* three scans returned from three spectra, at scan times 1, 2, 3
C9_Witness ==
    /\ fn = "fast" /\ pc = "returned"
    /\ Len(result.ms1_scans) = 3
    /\ \A i \in 1..3 : result.ms1_scans[i].scan_time = i

\* ---------------------------------------------------------------- C10
\* C10: in parse_ms1_fast, when the decoded m/z and intensity arrays of a
\* scan differ in length, the scan is emitted without error and its arrays are
\* the first min(len(mz), len(intensity)) elements of the decoded arrays:
\* exactly those when that m/z prefix is ascending, and otherwise the same
\* (m/z, intensity) pairs reordered.
C10_FastTruncatesToShorter ==
    fn = "fast" /\ cause = "none" =>
        /\ \A p \in 1..Len(file) : CleanMs1(file[p]) => p \in Range(origin)
        /\ \A i \in 1..Len(origin) :
              LET mz == RoleArray(file[origin[i]], "mz")
                  intensity == RoleArray(file[origin[i]], "intensity")
                  n == Min(Len(mz), Len(intensity))
                  scan == ms1_scans[i]
              IN  /\ Len(scan.mz_array) = n
                  /\ Len(scan.intensity_array) = n
                  /\ SamePairs(scan.mz_array, scan.intensity_array,
                               Prefix(mz, n), Prefix(intensity, n))
                  /\ IsNonDecreasing(Prefix(mz, n)) =>
                        /\ scan.mz_array = Prefix(mz, n)
                        /\ scan.intensity_array = Prefix(intensity, n)

\* three masses whose first two ascend and two intensities: the third mass,
\* which would sort first, is dropped
C10_Witness ==
    /\ fn = "fast" /\ pc = "returned"
    /\ Len(file) = 1 /\ Len(result.ms1_scans) = 1
    /\ RoleArray(file[1], "mz") = <<2, 3, 1>>
    /\ RoleArray(file[1], "intensity") = <<1, 2>>
    /\ result.ms1_scans[1].mz_array = <<2, 3>>
    /\ result.ms1_scans[1].intensity_array = <<1, 2>>

\* ---------------------------------------------------------------- C11
\* the index order of the stable sort of a: ascending, equal values in their
\* original relative order
StableOrder(a) ==
    CHOOSE p \in IndexOrders(Len(a)) :
        /\ IsNonDecreasing(Take(a, p))
        /\ \A i, j \in 1..Len(a) : i < j /\ a[p[i]] = a[p[j]] => p[i] < p[j]

\* C11: in parse_ms1_fast, when a scan's m/z array is not ascending, the
\* emitted (m/z, intensity) pairs are the stable sort by m/z of the original
\* pairs: ascending by m/z, equal m/z in their original relative order.
C11_FastSortIsStable ==
    fn = "fast" /\ cause = "none" =>
        \A i \in 1..Len(origin) :
            LET mz == RoleArray(file[origin[i]], "mz")
                intensity == RoleArray(file[origin[i]], "intensity")
                n == Min(Len(mz), Len(intensity))
                order == StableOrder(Prefix(mz, n))
            IN  ~IsNonDecreasing(Prefix(mz, n)) =>
                    /\ ms1_scans[i].mz_array = Take(Prefix(mz, n), order)
                    /\ ms1_scans[i].intensity_array = Take(Prefix(intensity, n), order)

\* ---------------------------------------------------------------- C12
\* C12: calculate_concentration returns 0 for every input signal when the
\* calibration slope is 0, whatever the intercept; it neither raises nor
\* returns not-a-number.
C12_ZeroSlopeGivesZero ==
    op = "calculate_concentration" /\ args.slope = Num(0, 1) /\ calc.pc # "called" =>
        calc.pc = "returned" /\ calc.value = Zero

\* slope 0 with a signal and an intercept that are not numbers
C12_Witness ==
    /\ op = "calculate_concentration" /\ calc.pc = "returned"
    /\ args.slope = Num(0, 1) /\ args.area = NaN /\ args.intercept = Inf(1)
    /\ calc.value = Zero

\* ---------------------------------------------------------------- C13
\* C13: for every signal, slope and intercept, each an ordinary number,
\* not-a-number or an infinity, calculate_concentration returns a finite
\* number and never raises; a not-a-number or infinite quotient gives 0.
C13_ConcentrationIsFinite ==
    op = "calculate_concentration" /\ calc.pc # "called" =>
        /\ calc.pc = "returned"
        /\ calc.value.k = "dec"
        /\ args.slope # Num(0, 1)
           /\ (\E conc \in fdiv(fsub(args.area, args.intercept), args.slope) :
                  conc.k \in {"nan", "inf"})
              => calc.value = Zero

\* finite arguments whose difference overflows to an infinity
C13_Witness ==
    /\ op = "calculate_concentration" /\ calc.pc = "returned"
    /\ args.area = Num(MaxFloat, 1) /\ args.intercept = Num(-MaxFloat, 1)
    /\ args.slope = Num(1, 2)
    /\ calc.value = Zero

\* ---------------------------------------------------------------- C14
\* the signal the caller computes for a concentration c: slope * c + intercept
fmul(a, b) == Finite(a.n * b.n, a.d * b.d)
fadd(a, b) == IF a.k = "inf" THEN a ELSE Finite(a.n * b.d + b.n * a.d, a.d * b.d)
SignalOf(c, slope, intercept) == fadd(fmul(slope, c), intercept)

FiniteInputs == {x \in FloatInputs : x.k = "num"}

\* the call was made with the signal of some concentration c and returned c
\* to the 6 decimal places of the output, for every such c
RecoversConcentration(exactOnly) ==
    \A c \in FiniteInputs :
        /\ args.slope \in FiniteInputs /\ args.slope.n # 0
        /\ args.intercept \in FiniteInputs
        /\ args.area = SignalOf(c, args.slope, args.intercept)
        /\ exactOnly => args.area.k = "num"
        => /\ calc.pc = "returned"
           /\ calc.value \in round(c, RoundDigits)

\* C14 (as stated): for every slope != 0, intercept and concentration c,
\* calculate_concentration(slope*c + intercept, {slope, intercept}) returns c
\* to the 6 decimal places of the output.
C14_RoundTrip ==
    op = "calculate_concentration" /\ calc.pc # "called" => RecoversConcentration(FALSE)

\* C14 (amended): the same for every finite slope != 0, intercept and c whose
\* signal slope*c + intercept is computed exactly, without overflow to an
\* infinity; slope 1000, intercept 500, area 2500 gives exactly 2.0.
C14_RoundTripWhenExact ==
    op = "calculate_concentration" /\ calc.pc # "called" => RecoversConcentration(TRUE)

\* slope 1000, intercept 500, area 2500: 2.0
C14_Witness ==
    /\ op = "calculate_concentration" /\ calc.pc = "returned"
    /\ args.slope = Num(1000, 1) /\ args.intercept = Num(500, 1)
    /\ args.area = Num(2500, 1)
    /\ args.area = SignalOf(Num(2, 1), args.slope, args.intercept)
    /\ calc.value = Dec(1, 2, 0)

\* ---------------------------------------------------------------- C15
\* the ion's baseline_corrected_area is present and > 0
HasPeakArea(ion_data) == ion_data.present /\ ion_data.has /\ ion_data.area > 0

\* what the ions before position i are to contribute: the area when it is
\* present and > 0, otherwise the summed intensity (rounded or not), 0 when
\* there is no intensity data
RECURSIVE ExpectedSignal(_, _, _)
ExpectedSignal(ions, i, rounded) ==
    IF i = 0 THEN 0
    ELSE ExpectedSignal(ions, i - 1, rounded) +
         (IF HasPeakArea(ions[i]) THEN ions[i].area
          ELSE IF ~ions[i].intensity.some THEN 0
          ELSE IF rounded THEN RoundToInteger(SumSeq(ions[i].intensity.arr))
          ELSE SumSeq(ions[i].intensity.arr))

\* C15 (as stated): in calibrate the signal of a compound is the sum over its
\* ions of the ion's baseline_corrected_area when present and > 0 and
\* otherwise of the ion's summed raw intensity (0 without intensity data),
\* the choice made per ion.
C15_SignalIsAreaOrRawSum ==
    op = "calibrate" =>
        calc.compound_signal = ExpectedSignal(args.ions, calc.i - 1, FALSE)

\* C15 (amended): the same, the summed intensity of an ion being rounded to
\* the nearest integer (a tie to the even one) before it is added.
C15_SignalIsAreaOrRoundedSum ==
    op = "calibrate" =>
        /\ calc.compound_signal = ExpectedSignal(args.ions, calc.i - 1, TRUE)
        /\ \A j \in 1..(calc.i - 1) :
              calc.paths[j] = IF HasPeakArea(args.ions[j]) THEN "area"
                              ELSE IF args.ions[j].intensity.some THEN "intensity"
                              ELSE "none"

\* two ions summed: the first falls back to its intensities 0.5 + 1 (rounded
\* to 2), the second has the peak area 1.5
C15_Witness ==
    /\ op = "calibrate" /\ calc.i = 3
    /\ args.ions[1] = IonData(TRUE, TRUE, 0, Some(<<1, 2>>))
    /\ args.ions[2] = IonData(TRUE, TRUE, 3, Some(<<4>>))
    /\ calc.compound_signal = 4 + 3
    /\ calc.paths = <<"intensity", "area">>

\* ---------------------------------------------------------------- C16
\* C16: after calibrate has summed a compound's ions, use_peak_areas = True
\* implies that no ion contributed an intensity-sum fallback, and
\* use_peak_areas = False implies that no ion contributed a peak area.
C16_FlagRecordsThePath ==
    op = "calibrate" /\ calc.i = Len(args.ions) + 1 =>
        /\ calc.use_peak_areas => \A j \in 1..Len(calc.paths) : calc.paths[j] # "intensity"
        /\ ~calc.use_peak_areas => \A j \in 1..Len(calc.paths) : calc.paths[j] # "area"

\* ---------------------------------------------------------------- C17
\* C17: safe_peak_integration never propagates a failure of the wrapped
\* integration function: it returns the function's result unchanged when the
\* function succeeds and the fallback peak area when it raises
\* InsufficientDataError or any other exception, so a failing peak does not
\* abort the caller's batch.
C17_SafeIntegrationNeverRaises ==
    op = "safe_peak_integration" =>
        /\ calc.pc = "batch"
        /\ \A j \in 1..Len(calc.results) :
              calc.results[j] =
                  IF args[j].integration_func.kind = "return"
                  THEN args[j].integration_func.value
                  ELSE create_fallback_peak_area(args[j].intensities, args[j].window)

\* a batch of three peaks integrated to its end: the first raises an
\* unexpected exception, the second InsufficientDataError, the third succeeds
C17_Witness ==
    /\ op = "safe_peak_integration" /\ Len(args) = 3 /\ Len(calc.results) = 3
    /\ args[1].integration_func.kind = "Exception" /\ args[1].window = None
    /\ args[2].integration_func.kind = "InsufficientDataError" /\ args[2].window.some
    /\ args[3].integration_func.kind = "return"
    /\ calc.results = <<PeakArea(7, 0), PeakArea(6, 0), PeakArea(5, 1)>>

C19_NoScanAfterCancellation ==
    [][fn = "fast" /\ cancelled => ms1_scans' = ms1_scans]_vars

\* ---------------------------------------------------------------- C20
\* C20: in parse_ms1_with_xic_optimization the XIC row of a target mass m
\* depends only on m, the mass accuracy and the scans: it is the row m has
\* under any other target list that holds m, a permutation of the list
\* included.
C20_XicRowsIndependent ==
    fn = "xic" =>
        \A i \in 1..Len(ms1_scans) :
            \A other \in TargetLists(FileTargets, MaxTargets) :
                \A j \in 1..Len(target_masses), k \in 1..Len(other) :
                    target_masses[j] = other[k] =>
                        xic_intensities.cols[i][j] =
                            CurrentXic(ms1_scans[i].mz_array, ms1_scans[i].intensity_array,
                                       other, mass_tolerance)[k]

\* two target masses with different, non-zero samples in a returned scan
C20_Witness ==
    /\ fn = "xic" /\ pc = "returned"
    /\ target_masses = <<2, 5>> /\ mass_accuracy = 1
    /\ Len(result.ms1_scans) >= 1
    /\ result.xic_data.xic_intensities.cols[1] = <<3, 2>>

\* ------------------------------------------------------------------ C21
\* the width in bytes of a value of the declared precision
ValueWidth(precision) == IF precision = "32" THEN 4 ELSE 8

\* the bytes the declared decompression makes of the decoded text
DeclaredBytes(a) ==
    IF a.compression = "zlib" THEN a.binary_data.zlib
    ELSE IF a.compression = "gzip" THEN a.binary_data.gzip
    ELSE a.binary_data.raw

\* the text is not validly encoded, its declared decompression fails, or the
\* byte count is no multiple of the value width
MustFail(a) ==
    \/ ~a.binary_data.valid
    \/ ~DeclaredBytes(a).ok
    \/ ByteCount(DeclaredBytes(a)) % ValueWidth(a.precision) # 0

\* C21: decode_binary_data ends in an error and gives no array whenever the
\* payload text is not validly encoded, the declared decompression fails, or
\* the byte count is not a multiple of the value width (4 bytes for 32-bit,
\* 8 for 64-bit); otherwise it returns exactly byteCount / width values.
C21_DecodeErrorsAndCount ==
    (op = "decode_binary_data" /\ calc.pc # "called") =>
        IF MustFail(args)
        THEN calc.pc = "raised" /\ calc.value.arr = <<>>
        ELSE /\ calc.pc = "returned"
             /\ Len(calc.value.arr) * ValueWidth(args.precision)
                    = ByteCount(DeclaredBytes(args))

\* ------------------------------------------------------------------ C22
\* C22: the total ion current stored on every scan parse_ms1_fast holds or
\* returns equals the sum of that scan's stored intensity array, the array
\* as it is after the cut to the shorter length and the reordering by m/z.
C22_TicIsSumOfStoredIntensities ==
    fn = "fast" =>
        \A scan \in HeldScans : scan.total_ion_current = SumSeq(scan.intensity_array)

\* a returned scan whose intensity array lost a non-zero value in the cut and
\* was reordered: its total ion current is the sum of what is left
C22_Witness ==
    /\ fn = "fast" /\ pc = "returned" /\ Len(result.ms1_scans) = 1
    /\ Len(RoleArray(file[1], "intensity")) > Len(result.ms1_scans[1].intensity_array)
    /\ SumSeq(RoleArray(file[1], "intensity")) > result.ms1_scans[1].total_ion_current
    /\ result.ms1_scans[1].intensity_array
           # Prefix(RoleArray(file[1], "intensity"), Len(result.ms1_scans[1].intensity_array))
    /\ result.ms1_scans[1].total_ion_current > 0

\* ------------------------------------------------------------------ C23
\* C23: parse_ms1_fast never raises to its caller: for any failure while
\* loading a file, a missing or unreadable file included, it returns an
\* empty list instead, whereas parse_ms1_with_xic_optimization re-raises.
C23_FastNeverRaises ==
    /\ fn = "fast" => /\ pc # "raised"
                      /\ cause # "none" => pc = "returned" /\ result.ms1_scans = <<>>
    /\ fn = "xic" /\ cause # "none" => pc = "raised"

\* ------------------------------------------------------------------ C24
\* C24: parse_ms1_fast returns no partial result: when a failure that is not
\* caught per array happens while spectrum k is handled (an unparsable MS
\* level or scan time, malformed XML), the returned list is empty even though
\* scans were built from spectra 1..k-1; what it returns is the complete
\* list of scans of the file or the empty list.
C24_FastAllOrNothing ==
    fn = "fast" /\ pc = "returned" =>
        IF cause # "none" THEN result.ms1_scans = <<>>
        ELSE /\ result.ms1_scans = ms1_scans
             /\ \A p \in 1..Len(file) :
                   (\E out \in SpectrumFast(file[p]) : out.kind = "scan") => p \in Range(origin)

\* a failure at the third spectrum after two scans were built: [] is returned
C24_Witness ==
    /\ fn = "fast" /\ pc = "returned" /\ cause \in {"level", "time"}
    /\ Len(file) = 3 /\ Len(ms1_scans) = 2
    /\ result.ms1_scans = <<>>

\* ------------------------------------------------------------------ C25
\* the spectrum declares MS level 1, or none (the level read defaults to 1)
IsMs1(elem) == DeclaresNoLevel(elem) \/ DeclaresLevel1(elem)

\* C25: while parse_ms1_fast runs and when it completes without a whole-file
\* failure, a spectrum yields a scan if and only if its MS level is 1 and
\* both an m/z-role array and an intensity-role array with non-empty payload
\* text were decoded successfully; an MS1 spectrum with an empty or missing
\* payload, or with an array that has no role tag, yields no scan and no
\* error.  Each such spectrum yields one scan.
C25_ScanIffMs1WithBothArrays ==
    fn = "fast" /\ cause = "none" =>
        /\ pc # "raised"
        /\ \A p \in 1..Len(file) :
              p \in Range(origin) <=> /\ IsMs1(file[p])
                                      /\ Decodes(file[p], "mz")
                                      /\ Decodes(file[p], "intensity")
        /\ \A i, j \in 1..Len(origin) : origin[i] = origin[j] => i = j
        /\ Len(ms1_scans) = Len(origin)
        /\ pc = "returned" => result.ms1_scans = ms1_scans

\* a completed call on a file of an MS1 spectrum whose intensity payload is
\* empty, one whose second array has no role tag, and one that yields a scan
C25_Witness ==
    /\ fn = "fast" /\ pc = "returned" /\ cause = "none" /\ Len(file) = 3
    /\ origin = <<3>> /\ Len(result.ms1_scans) = 1
    /\ IsMs1(file[1]) /\ \E k \in 1..Len(file[1].arrays) : ~HasText(file[1].arrays[k])
    /\ IsMs1(file[2]) /\ \E k \in WithText(file[2]) :
                            /\ ArrayMeta(file[2].arrays[k]).array_type = "none"
                            /\ DecodeArray(file[2].arrays[k]).ok

\* ------------------------------------------------------------------ C26
\* C26: in both streaming readers, whenever the handling of a spectrum end
\* event completed normally, that spectrum's element has been cleared,
\* whether the spectrum was MS1 or not and whether a scan was built or not:
\* as long as no exception left the loop no delivered spectrum keeps its
\* content, and at no time does more than one.
C26_ElementsClearedAfterHandling ==
    /\ cause = "none" => held = {}
    /\ Cardinality(held) <= 1

\* a completed call on a file of a spectrum that is not MS1, an MS1 spectrum
\* that yields no scan and one that yields a scan: none keeps its content
C26_Witness ==
    /\ pc = "returned" /\ cause = "none" /\ Len(file) = 3
    /\ ~IsMs1(file[1]) /\ IsMs1(file[2]) /\ origin = <<3>>
    /\ held = {}

\* ------------------------------------------------------------------ C27
\* C27: construct_xics leaves its inputs unchanged: the compound list passed
\* in and the scans are, at every point of the call and after it, what they
\* were when it was called, and every XIC computed is stored on a deep copy
\* of the compound list only (an object that is not the caller's list).
C27_ConstructXicsKeepsInputs ==
    op = "construct_xics" =>
        /\ calc.heap["ion_list"] = args.ion_list
        /\ calc.heap["data"] = args.data
        /\ calc.pc = "returned" =>
              /\ calc.compounds # "ion_list"
              /\ LET compounds == calc.heap[calc.compounds]
                 IN  /\ Len(compounds) = Len(args.ion_list)
                     /\ \A c \in 1..Len(compounds) :
                           /\ Len(compounds[c].ions) = Len(args.ion_list[c].ions)
                           /\ \A i \in 1..Len(compounds[c].ions) :
                                 /\ compounds[c].ions[i].ion = args.ion_list[c].ions[i].ion
                                 /\ compounds[c].ions[i].xic =
                                       Some(construct_xics(args.data, compounds[c].ions[i].ion,
                                                           args.mass_accuracy))

\* a call over two scans and two compounds, the second with two ions, has
\* returned: non-zero XICs are on the copy and the caller's list has none
C27_Witness ==
    /\ op = "construct_xics" /\ calc.pc = "returned"
    /\ Len(args.data) = 2 /\ Len(args.ion_list) = 2 /\ Len(args.ion_list[2].ions) = 2
    /\ calc.heap["copy"][2].ions[2].xic.some
    /\ SumSeq(calc.heap["copy"][2].ions[2].xic.arr) > 0
    /\ ~calc.heap["ion_list"][2].ions[2].xic.some

\* ------------------------------------------------------------------ C28
\* C28: in parse_csv_fast and load_absorbance_data_fast, whatever the
\* allocations do (each malloc, realloc, strdup may fail), no NULL or freed
\* buffer is read or written, the index written is below the capacity of the
\* buffer, and when the function returns every block that was allocated has
\* been freed and the file is closed.
C28_CsvMemorySafe ==
    op = "load_absorbance_data_fast" =>
        /\ calc.faults = {}
        /\ calc.pc = "returned" =>
              /\ ~calc.file_open
              /\ calc.lost = 0
              /\ calc.data.state # "live"
              /\ calc.data.time_values.ptr # "live"
              /\ calc.data.intensity_values.ptr # "live"

\* ------------------------------------------------------------------ C29
\* the pieces of s between the occurrences of sep, the empty ones too
RECURSIVE SplitOn(_, _, _, _)
SplitOn(s, sep, piece, pieces) ==
    IF s = <<>> THEN Append(pieces, piece)
    ELSE IF Head(s) = sep THEN SplitOn(Tail(s), sep, <<>>, Append(pieces, piece))
    ELSE SplitOn(Tail(s), sep, Append(piece, Head(s)), pieces)

\* the (time, intensity) rows of the lines whose first and last
\* delimiter-separated tokens start with a number, in input order
RECURSIVE RowsOfLines(_, _)
RowsOfLines(lines, delimiter) ==
    IF lines = <<>> THEN <<>>
    ELSE LET tokens == SplitOn(Head(lines), delimiter, <<>>, <<>>)
             first == strtod(tokens[1], FALSE, 0)
             last == strtod(tokens[Len(tokens)], FALSE, 0)
         IN  (IF first.ok /\ last.ok THEN <<<<first.val, last.val>>>> ELSE <<>>)
             \o RowsOfLines(Tail(lines), delimiter)

ExpectedRows(stream) == RowsOfLines(SplitOn(stream, "\n", <<>>, <<>>), Delimiter(stream))

\* the rows parse_csv_fast returned
ReturnedRows(data) ==
    [k \in 1..data.size |->
        <<ReadBuffer(data.time_values, data.size)[k],
          ReadBuffer(data.intensity_values, data.size)[k]>>]

\* C29: parse_csv_fast outputs, in input order, exactly one (time,
\* intensity) row for each input line whose first delimiter-separated token
\* and whose last token both start with a parseable number, the time from
\* the first token and the intensity from the last; every other line is
\* skipped without error, and the two sequences have the same length.
C29_CsvRowsOfNumericLines ==
    op = "load_absorbance_data_fast" /\ calc.pc = "wrapper" =>
        /\ Len(ReadBuffer(calc.data.time_values, calc.data.size)) = calc.data.size
        /\ Len(ReadBuffer(calc.data.intensity_values, calc.data.size)) = calc.data.size
        /\ ReturnedRows(calc.data) = ExpectedRows(args.file)

\* ------------------------------------------------------------------ C30
\* the terminal signals among those emitted
TerminalSignals(signals) ==
    SelectSeq(signals, LAMBDA s : s.name \in {"finished", "error"})

\* C30: every run of LoadingWorker emits exactly one terminal signal:
\* finished, with the results, when loading completed without an exception,
\* and error, with the message of the exception, when one occurred; at no
\* time has it emitted both or two of a kind, and when it ends it has not
\* emitted neither.
C30_OneTerminalSignal ==
    op = "LoadingWorker.run" =>
        LET terminal == TerminalSignals(calc.signals)
        IN  /\ Len(terminal) <= 1
            /\ calc.pc = "try" => terminal = <<>>
            /\ calc.pc = "done" =>
                  /\ Len(terminal) = 1
                  /\ terminal[1] = calc.signals[Len(calc.signals)]
                  /\ IF calc.e = "none"
                     THEN terminal[1] = Signal("finished", args)
                     ELSE terminal[1] = Signal("error", calc.e)

\* a run that loaded two files and failed on the third has ended: error is
\* its one terminal signal, after two progress signals
C30_Witness ==
    /\ op = "LoadingWorker.run" /\ calc.pc = "done"
    /\ Len(args) = 3 /\ Len(calc.loaded) = 2 /\ calc.e = "ValueError"
    /\ Len(calc.signals) = 3
    /\ calc.signals[3] = Signal("error", "ValueError")

====
